---- MODULE Spec2Model ----
(***************************************************************************)
(* Model of the crd-bumper step orchestrator (tools/crd-bumper/crd-bumper.py *)
(* and pkg/git_cli.py).                                                     *)
(*                                                                          *)
(* Strings are sequences of tokens.  A token is a word (free of '-', of    *)
(* white space and of quotes), or one of the separators "-", " ", "\n",    *)
(* "'".  The state of the repository is the message of the newest commit,  *)
(* the cleanliness of the working tree and the set of branches.            *)
(***************************************************************************)
EXTENDS Integers, Sequences, FiniteSets, TLC

VARIABLES
    head,             \* message of the newest commit, as `git log -1 --format=%B` prints it
    dirty,            \* `git status -s` prints something
    branches,         \* names of the existing branches
    env,              \* facts of the repository and of the external tools
    pc,               \* position of the process in main()
    args,             \* parsed command line and environment of the running process
    gitcli,           \* the GitCLI object: _dryrun, _nocommit
    operation_order,  \* main's local list of steps
    cmd_elem,         \* main's local: the selected step
    exitCode,         \* exit status of the last process
    exc,              \* exception (or message) that ended the last process
    invoked,          \* step names whose action the running process has called
    edited,           \* the running process has written to the working tree
    commits,          \* step names committed by the tool, oldest first
    lastCommit,       \* last call of commit_stage that returned, in this process: stage, message
    done,             \* main's local: what the last step returned
    phase,            \* comparison of 'all' with repeated 'step': which side runs
    start,            \* the repository the comparison starts from
    ref,              \* what the 'all' side produced
    runs,             \* number of processes started
    executed,         \* step names whose action was called, over all processes
    tools,            \* external commands the running process's steps have run
    files,            \* FileUtil: the files, path to content (None: no such file)
    fu,               \* FileUtil: the object, _dryrun, _fpath, _input_data
    fupc,             \* FileUtil: position of the caller
    nops,             \* FileUtil: number of operations done on the buffer
    applied,          \* the rewrite rule applied to the file, the content after each application
    last              \* FileUtil: the last operation done on a buffer, its argument and return value

vars == <<head, dirty, branches, env, pc, args, gitcli, operation_order,
          cmd_elem, exitCode, exc, invoked, edited, commits, lastCommit, done,
          phase, start, ref, runs, executed, tools, files, fu, fupc, nops, applied,
          last>>

\* the state of the FileUtil object and of the files it works on
fuvars == <<files, fu, fupc, nops, applied, last>>

(***************************************************************************)
(* Python values                                                           *)
(***************************************************************************)
None == <<>>
Some(x) == <<x>>

NoneElem == [tag |-> "None", name |-> <<>>, fn |-> ""]
EmptyElem == [tag |-> "[]", name |-> <<>>, fn |-> ""]
StepElem(n, f) == [tag |-> "step", name |-> n, fn |-> f]

\* len(cmd_elem): None has no len()
HasLen(e) == e.tag # "None"
len(e) == IF e.tag = "step" THEN 2 ELSE 0

(***************************************************************************)
(* String helpers (str.strip, str.split, str.startswith)                   *)
(***************************************************************************)
Whitespace == {" ", "\n"}

RECURSIVE lstrip(_)
lstrip(s) ==
    IF s = <<>> THEN <<>>
    ELSE IF Head(s) \in Whitespace THEN lstrip(Tail(s)) ELSE s

RECURSIVE rstrip(_)
rstrip(s) ==
    IF s = <<>> THEN <<>>
    ELSE IF s[Len(s)] \in Whitespace THEN rstrip(SubSeq(s, 1, Len(s) - 1)) ELSE s

strip(s) == rstrip(lstrip(s))

\* index of the first occurrence of token t in s, 0 when absent
RECURSIVE IndexFrom(_, _, _)
IndexFrom(s, t, i) ==
    IF i > Len(s) THEN 0
    ELSE IF s[i] = t THEN i ELSE IndexFrom(s, t, i + 1)

IndexOf(s, t) == IndexFrom(s, t, 1)

\* s.split(t, maxsplit=1)
split1(s, t) ==
    LET i == IndexOf(s, t)
    IN IF i = 0 THEN <<s>>
       ELSE <<SubSeq(s, 1, i - 1), SubSeq(s, i + 1, Len(s))>>

startswith(s, p) == Len(s) >= Len(p) /\ SubSeq(s, 1, Len(p)) = p

RECURSIVE Count(_, _)
Count(s, t) ==
    IF s = <<>> THEN 0
    ELSE (IF Head(s) = t THEN 1 ELSE 0) + Count(Tail(s), t)

(***************************************************************************)
(* The ordered step list, crd-bumper.py:113-122                            *)
(***************************************************************************)
operation_order_init ==
    << StepElem(<<"create", "-", "apis">>, "create_apis"),
       StepElem(<<"copy", "-", "api", "-", "content">>, "copy_api_content"),
       StepElem(<<"mv", "-", "webhooks">>, "mv_webhooks"),
       StepElem(<<"conversion", "-", "webhooks">>, "conversion_webhooks"),
       StepElem(<<"conversion", "-", "gen">>, "conversion_gen"),
       StepElem(<<"bump", "-", "controllers">>, "bump_controllers"),
       StepElem(<<"bump", "-", "apis">>, "bump_apis"),
       StepElem(<<"auto", "-", "gens">>, "auto_gens") >>

StepNames == {operation_order_init[i].name : i \in DOMAIN operation_order_init}

\* the OMIT_STEP handling finding the step and leaving it in the list
RemoveFirst_none(order, n) == order

\* op_order.remove(x) for the first x whose name is omit_step, crd-bumper.py:128-138
RECURSIVE RemoveFirst(_, _)
RemoveFirst(order, n) ==
    IF order = <<>> THEN <<>>
    ELSE IF Head(order).name = n THEN Tail(order)
    ELSE <<Head(order)>> \o RemoveFirst(Tail(order), n)

(***************************************************************************)
(* GitCLI, pkg/git_cli.py                                                  *)
(***************************************************************************)
PREFIX == <<"CRDBUMPER", "-">>

\* msg = f"CRDBUMPER-{operation}\n\n{msg_in}", git_cli.py:148
StageMessage(operation, msg_in) == PREFIX \o operation \o <<"\n", "\n">> \o msg_in

\* What git records for `git commit -s -m <msg>`: the message with white
\* space around it removed and a Signed-off-by trailer added; %B prints
\* it followed by a newline.
GitRecord(msg) == strip(msg) \o <<"\n", "\n", "Signed", "-", "off", "-", "by">> \o <<"\n">>

\* shlex.split(cmd) raises ValueError on an unbalanced quote, git_cli.py:149-155
ShlexFails(msg) == Count(msg, "'") % 2 = 1

\* get_previous splitting at every hyphen: operation.split("-")[1]
get_previous_split_all(h) ==
    LET operation == split1(strip(h), "\n")[1]
        rest == split1(operation, "-")[2]
    IN IF startswith(operation, PREFIX)
       THEN Some(split1(rest, "-")[1])
       ELSE None

\* get_previous, git_cli.py:164-182
get_previous(h) ==
    LET operation == split1(strip(h), "\n")[1]
    IN IF startswith(operation, PREFIX)
       THEN Some(split1(operation, "-")[2])
       ELSE None

\* The step before next_operation in the list, None for the first,
\* git_cli.py:192-196
RECURSIVE PrevOperation(_, _, _)
PrevOperation(names, next_operation, prev) ==
    IF names = <<>> THEN prev
    ELSE IF Head(names) = next_operation THEN prev
    ELSE PrevOperation(Tail(names), next_operation, Some(Head(names)))

\* expect_previous raises ValueError, git_cli.py:184-205
expect_previous_raises(next_operation, op_cmd_list, h) ==
    LET prev_operation == PrevOperation(op_cmd_list, next_operation, None)
    IN /\ prev_operation # None
       /\ LET prev_cmd == get_previous(h)
              prev_cmd_token == IF prev_cmd = None THEN PREFIX \o <<"None">>
                                ELSE PREFIX \o prev_cmd[1]
              expect_token == PREFIX \o prev_operation[1]
          IN prev_cmd_token # expect_token

\* verify_clean raises RuntimeError, git_cli.py:117-137
verify_clean_raises(g, d) == ~g.dryrun /\ d

\* the `git status -s` of the verify_clean that follows a commit exits
\* non-zero, git_cli.py:131-134 called from git_cli.py:162
status_fails_after_commit(g, e) ==
    ~g.dryrun /\ "git status after commit" \in e.tool_fails

(***************************************************************************)
(* find_next_cmd, crd-bumper.py:369-385                                    *)
(***************************************************************************)
\* for x in rev_list: if x[0] == prev_cmd_str: return next_cmd_elem; next_cmd_elem = x
\* the scan returning the element it holds when the list is exhausted
RECURSIVE ScanReversed_fallthrough(_, _, _, _)
ScanReversed_fallthrough(order, i, prev_cmd_str, next_cmd_elem) ==
    IF i = 0 THEN next_cmd_elem
    ELSE IF order[i].name = prev_cmd_str THEN next_cmd_elem
    ELSE ScanReversed_fallthrough(order, i - 1, prev_cmd_str, order[i])

\* the scan returning the element it has matched
RECURSIVE ScanReversed_matched(_, _, _, _)
ScanReversed_matched(order, i, prev_cmd_str, next_cmd_elem) ==
    IF i = 0 THEN NoneElem
    ELSE IF order[i].name = prev_cmd_str THEN order[i]
    ELSE ScanReversed_matched(order, i - 1, prev_cmd_str, order[i])

RECURSIVE ScanReversed(_, _, _, _)
ScanReversed(order, i, prev_cmd_str, next_cmd_elem) ==
    IF i = 0 THEN NoneElem
    ELSE IF order[i].name = prev_cmd_str THEN next_cmd_elem
    ELSE ScanReversed(order, i - 1, prev_cmd_str, order[i])

\* find_next_cmd scanning the list without reversing it
find_next_cmd_unreversed(h, order) ==
    LET prev_cmd_str == get_previous(h)
        x == CHOOSE j \in DOMAIN order : order[j].name = prev_cmd_str[1]
    IN IF prev_cmd_str = None THEN order[1]
       ELSE IF prev_cmd_str[1] = order[Len(order)].name THEN EmptyElem
       ELSE IF \E j \in DOMAIN order : order[j].name = prev_cmd_str[1]
       THEN (IF x = 1 THEN order[Len(order)] ELSE order[x - 1])
       ELSE NoneElem

\* find_next_cmd starting over after the last step
find_next_cmd_wrap(h, order) ==
    LET prev_cmd_str == get_previous(h)
    IN IF prev_cmd_str = None THEN order[1]
       ELSE IF prev_cmd_str[1] = order[Len(order)].name THEN order[1]
       ELSE ScanReversed(order, Len(order), prev_cmd_str[1], order[Len(order)])

\* find_next_cmd starting at the first step when the marker names no step
\* of the list
find_next_cmd_restart(h, order) ==
    LET prev_cmd_str == get_previous(h)
    IN IF prev_cmd_str = None THEN order[1]
       ELSE IF prev_cmd_str[1] = order[Len(order)].name THEN EmptyElem
       ELSE IF \A j \in DOMAIN order : order[j].name # prev_cmd_str[1] THEN order[1]
       ELSE ScanReversed(order, Len(order), prev_cmd_str[1], order[Len(order)])

find_next_cmd(h, order) ==
    LET prev_cmd_str == get_previous(h)
    IN IF prev_cmd_str = None THEN order[1]
       ELSE IF prev_cmd_str[1] = order[Len(order)].name THEN EmptyElem
       ELSE ScanReversed(order, Len(order), prev_cmd_str[1], order[Len(order)])

(***************************************************************************)
(* FileUtil, pkg/fileutil.py: the operations on the buffer.  A file's      *)
(* content is a string; a file that does not exist is None.                *)
(***************************************************************************)
\* sub in line
Contains(line, sub) ==
    \E i \in 1..(Len(line) - Len(sub) + 1) : SubSeq(line, i, i + Len(sub) - 1) = sub

\* s.split("\n")
RECURSIVE SplitLines(_)
SplitLines(s) ==
    LET i == IndexOf(s, "\n")
    IN IF i = 0 THEN <<s>>
       ELSE <<SubSeq(s, 1, i - 1)>> \o SplitLines(SubSeq(s, i + 1, Len(s)))

\* s.find(sub) counted from 1: where the leftmost occurrence of sub starts,
\* 0 when there is none
str_find(s, sub) ==
    LET hits == {i \in 1..(Len(s) - Len(sub) + 1) : SubSeq(s, i, i + Len(sub) - 1) = sub}
    IN IF hits = {} THEN 0 ELSE CHOOSE i \in hits : \A j \in hits : i <= j

\* s.replace(from_str, to_str, 1): the first occurrence only
Replace_first(s, from_str, to_str) ==
    LET i == str_find(s, from_str)
    IN IF from_str = <<>> \/ i = 0 THEN s
       ELSE SubSeq(s, 1, i - 1) \o to_str \o SubSeq(s, i + Len(from_str), Len(s))

\* s.replace(from_str, to_str): every occurrence, leftmost first
RECURSIVE Replace(_, _, _)
Replace(s, from_str, to_str) ==
    LET i == str_find(s, from_str)
    IN IF from_str = <<>> \/ i = 0 THEN s
       ELSE SubSeq(s, 1, i - 1) \o to_str \o
            Replace(SubSeq(s, i + Len(from_str), Len(s)), from_str, to_str)

\* find_in_file: the first line having substr, fileutil.py:78-86
RECURSIVE FirstLineWith(_, _)
FirstLineWith(lines, substr) ==
    IF lines = <<>> THEN None
    ELSE IF Contains(Head(lines), substr) THEN Some(Head(lines))
    ELSE FirstLineWith(Tail(lines), substr)

find_in_file(data, substr) == FirstLineWith(SplitLines(data), substr)

\* replace_in_file on the buffer, fileutil.py:51-61
replace_in_file(data, from_str, to_str) == Replace(data, from_str, to_str)

\* the return value of replace_in_file: input_data != self._input_data,
\* fileutil.py:55-61
replace_changed(data, from_str, to_str) == replace_in_file(data, from_str, to_str) # data

\* the loop leaving out the lines that have from_str in them
RECURSIVE KeepLines_containing(_, _)
KeepLines_containing(lines, from_str) ==
    IF lines = <<>> THEN <<>>
    ELSE (IF ~Contains(Head(lines), from_str) THEN Head(lines) \o <<"\n">> ELSE <<>>)
         \o KeepLines_containing(Tail(lines), from_str)

\* delete_from_file on the buffer: every line is written back followed by
\* a newline, the lines equal to from_str left out, fileutil.py:63-76
RECURSIVE KeepLines(_, _)
KeepLines(lines, from_str) ==
    IF lines = <<>> THEN <<>>
    ELSE (IF Head(lines) # from_str THEN Head(lines) \o <<"\n">> ELSE <<>>)
         \o KeepLines(Tail(lines), from_str)

delete_from_file(data, from_str) == KeepLines(SplitLines(data), from_str)

\* the return value of delete_from_file: a line was left out
delete_changed(data, from_str) ==
    \E i \in DOMAIN SplitLines(data) : SplitLines(data)[i] = from_str

\* append on the buffer, fileutil.py:98-104
append(data, line) == data \o line

(***************************************************************************)
(* HubSpokeUtil, pkg/hub_spoke_util.py; file is api/<ver>/conversion.go    *)
(***************************************************************************)
SpokeMark == <<" ", "ConvertTo(dstRaw", " ", "conversion.Hub)", " ">>
HubMark == <<" ", "Hub()", " ">>

\* hub_spoke_util.py:26-38
is_spoke(file) ==
    IF file = None THEN FALSE
    ELSE find_in_file(file[1], SpokeMark) # None

\* hub_spoke_util.py:40-52
is_hub(file) ==
    IF file = None THEN FALSE
    ELSE find_in_file(file[1], HubMark) # None

\* conversion.go as ConversionWebhooks.hub() writes it, webhooks.py:135-151
HubFile ==
    <<"package", " ", "v1", "\n", "\n",
      "func", " ", "(*Widget)", " ", "Hub()", " ", "{}", "\n">>

\* conversion.go as ConversionGen.mk_spoke() writes it, conversion_gen.py:170-297
SpokeFile ==
    <<"package", " ", "v1", "\n", "\n",
      "func", " ", "(src", " ", "*Widget)", " ", "ConvertTo(dstRaw", " ",
      "conversion.Hub)", " ", "error", " ", "{", "\n", "}", "\n">>

\* prev_is_hub not looking at the previous version's conversion.go
prev_is_hub_unchecked(e) == TRUE

\* CreateApis.prev_is_hub, create_apis.py:41-50; e.api_versions is the
\* number of directories of api/, e.conversion_go the previous version's
\* conversion.go
prev_is_hub(e) ==
    IF e.api_versions > 1 THEN is_hub(e.conversion_go) ELSE TRUE

\* Controllers.has_earlier_spokes, controllers.py:48-54
has_earlier_spokes(e) == e.api_versions > 2

(***************************************************************************)
(* Bounds and input sets                                                   *)
(***************************************************************************)
PlainBody == <<"Create", " ", "v2", " ", "APIs", ".">>

\* message bodies handed to commit_stage: one line with hyphens, several
\* lines of which a later one looks like a marker, and one with an
\* unbalanced quote
Bodies ==
    { PlainBody,
      <<"Make", " ", "auto", "-", "generated", "\n", "\n",
        "CRDBUMPER", "-", "auto", "-", "gens", "\n">>,
      <<"it", "'", "s">> }

\* values of OMIT_STEP: unset, two step names, a name that is no step
OmitChoices ==
    { None, Some(<<"bump", "-", "apis">>), Some(<<"mv", "-", "webhooks">>),
      Some(<<"no", "-", "step">>) }

BranchNames == {"api-v2", "main"}

\* number of times the tool is started
MaxRuns == 1

\* sets of commands that exit non-zero: the external tool (kubebuilder,
\* make) of a step function, or the `git status -s` that follows a commit
FailSets == { {}, {"copy_api_content", "auto_gens"}, {"git status after commit"} }

HumanMessage == <<"Fix", " ", "non", "-", "local", " ", "typo", "\n">>
BogusName == <<"old", "-", "step">>

\* the newest commit when the tool is first run: a human commit, the marker
\* of any step, or a marker naming no step
InitHeads ==
    {HumanMessage}
    \cup {GitRecord(StageMessage(n, <<"body">>)) : n \in StepNames \cup {BogusName}}

\* command lines and environments the tool is started with: every
\* combination of subcommand, --dry-run, --no-commit, --this-branch and
\* OMIT_STEP; USE_EXISTING_WORKAREA only with --this-branch, and a bad
\* branch name or bad version arguments only on an otherwise plain command
AllArgs ==
    [cmd : {"all", "step"}, dryrun : BOOLEAN, nocommit : BOOLEAN,
     this_branch : BOOLEAN, branch : BranchNames, valid : BOOLEAN,
     omit_step : OmitChoices, use_existing : BOOLEAN]

Plain(a) == ~a.dryrun /\ ~a.nocommit /\ a.omit_step = None /\ ~a.use_existing

ArgSets ==
    {a \in AllArgs :
        /\ a.use_existing => a.this_branch
        /\ (a.dryrun /\ a.nocommit) => a.cmd = "all"
        /\ (~a.valid \/ a.branch \in {"main"}) => (Plain(a) /\ ~a.this_branch)
        /\ ~(~a.valid /\ a.branch = "main")}

NoArgs ==
    [cmd |-> "step", dryrun |-> FALSE, nocommit |-> FALSE, this_branch |-> FALSE,
     branch |-> "api-v2", valid |-> TRUE, omit_step |-> None, use_existing |-> FALSE]

\* the API versions of the repository when the tool is first run: the
\* number of directories of api/ and the previous version's conversion.go
RepoShapes ==
    { [api_versions |-> 1, conversion_go |-> None],
      [api_versions |-> 2, conversion_go |-> Some(HubFile)],
      [api_versions |-> 2, conversion_go |-> Some(SpokeFile)],
      [api_versions |-> 3, conversion_go |-> Some(HubFile)] }

\* facts of the repository and its tools, the same for every process:
\* the API versions; the commands that fail; cmd/main.go uses an import
\* alias of its own; the body of the commit messages the steps write (it
\* depends on the versions and Kinds).  Failing commands and the bodies are
\* combined in a repository of one version and in one whose previous
\* version is a spoke; the import alias is looked at in a repository of one
\* version whose commands succeed.
EnvSets ==
    { e \in { [api_versions |-> r.api_versions, conversion_go |-> r.conversion_go,
                tool_fails |-> f, preferred_alias |-> p, msg_in |-> b] :
                  r \in RepoShapes, f \in FailSets, b \in Bodies, p \in BOOLEAN } :
        /\ e.preferred_alias => (e.api_versions = 1 /\ e.tool_fails = {})
        /\ (e.api_versions > 1 /\ is_hub(e.conversion_go))
             => (e.tool_fails = {} /\ e.msg_in = PlainBody) }

(***************************************************************************)
(* Initial state: a cloned repository, no process running                  *)
(***************************************************************************)
\* no operation has been done on a buffer
NoOperation == [op |-> "", arg |-> <<>>, before |-> <<>>, after |-> <<>>, ret |-> FALSE]

\* no FileUtil object is looked at
NoFileUtil ==
    /\ files = <<>>
    /\ fu = None
    /\ fupc = "none"
    /\ nops = 0
    /\ applied = [rule |-> "", dryrun |-> FALSE, after |-> <<>>]
    /\ last = NoOperation

Init ==
    /\ head \in InitHeads
    /\ dirty \in BOOLEAN
    /\ branches = {"main"}
    /\ env \in EnvSets
    /\ pc = "idle"
    /\ args = NoArgs
    /\ gitcli = [dryrun |-> FALSE, nocommit |-> FALSE]
    /\ operation_order = operation_order_init
    /\ cmd_elem = NoneElem
    /\ exitCode = 0
    /\ exc = ""
    /\ invoked = <<>>
    /\ edited = FALSE
    /\ commits = <<>>
    /\ lastCommit = None
    /\ done = "unset"
    /\ phase = "free"
    /\ start = None
    /\ ref = None
    /\ runs = 0
    /\ executed = <<>>
    /\ tools = {}
    /\ NoFileUtil

\* the process ends: sys.exit(code), an uncaught exception (status 1), or
\* the end of main() followed by sys.exit(0), crd-bumper.py:417-420
Exit(code, e) ==
    /\ pc' = "exited"
    /\ exitCode' = code
    /\ exc' = e

(***************************************************************************)
(* main(), crd-bumper.py:110-168: OMIT_STEP, arguments, branch             *)
(***************************************************************************)
\* a GitCLI that takes --no-commit as given, whatever --dry-run is
GitCLI_nocommit_as_given(dryrun, nocommit) ==
    [dryrun |-> dryrun, nocommit |-> nocommit]

\* GitCLI.__init__, git_cli.py:28-32
GitCLI(dryrun, nocommit) ==
    [dryrun |-> dryrun, nocommit |-> IF dryrun THEN TRUE ELSE nocommit]

\* the list after the OMIT_STEP handling, crd-bumper.py:124-138
OmitFound(omit_step) ==
    \E i \in DOMAIN operation_order_init : operation_order_init[i].name = omit_step[1]

ForbiddenBranches == {"main", "master", "releases/v0"}

main_start(a) ==
    /\ pc \in {"idle", "exited"}
    /\ invoked' = <<>>
    /\ edited' = FALSE
    /\ tools' = {}
    /\ lastCommit' = None
    /\ done' = "unset"
    /\ cmd_elem' = NoneElem
    /\ LET cmd == IF a.dryrun \/ a.nocommit THEN "step" ELSE a.cmd
           g == GitCLI(a.dryrun, a.nocommit)
           order == IF a.omit_step = None THEN operation_order_init
                    ELSE RemoveFirst(operation_order_init, a.omit_step[1])
       IN /\ args' = [NoArgs EXCEPT !.cmd = cmd, !.dryrun = a.dryrun,
                                  !.nocommit = a.nocommit,
                                  !.this_branch = a.this_branch,
                                  !.omit_step = a.omit_step,
                                  !.use_existing = a.use_existing]
          /\ gitcli' = g
          /\ IF a.omit_step # None /\ ~OmitFound(a.omit_step)
             THEN \* crd-bumper.py:135-137
                  /\ Exit(1, "Did not find a step named")
                  /\ UNCHANGED <<operation_order, branches>>
             ELSE /\ operation_order' = order
                  /\ IF ~a.valid
                     THEN \* validate_args, crd-bumper.py:399-414
                          Exit(1, "API --prev-ver and --new-ver must not be the same")
                          /\ UNCHANGED branches
                     ELSE IF a.this_branch
                     THEN pc' = "find" /\ UNCHANGED <<exitCode, exc, branches>>
                     ELSE IF a.branch \in ForbiddenBranches
                     THEN \* checkout_branch, git_cli.py:37-38
                          Exit(1, "ValueError: Branch name must not be main")
                          /\ UNCHANGED branches
                     ELSE IF verify_clean_raises(g, dirty)
                     THEN \* git_cli.py:39, caught at crd-bumper.py:163-168
                          Exit(1, "Workarea is not clean") /\ UNCHANGED branches
                     ELSE IF g.dryrun
                     THEN pc' = "find" /\ UNCHANGED <<exitCode, exc, branches>>
                     ELSE IF a.branch \in branches
                     THEN \* git checkout -b fails, git_cli.py:51-52
                          Exit(1, "Unable to checkout branch") /\ UNCHANGED branches
                     ELSE /\ branches' = branches \cup {a.branch}
                          /\ pc' = "find"
                          /\ UNCHANGED <<exitCode, exc>>
    /\ UNCHANGED <<head, dirty, env, commits>>

(***************************************************************************)
(* main(), crd-bumper.py:170-180: the first selection                      *)
(***************************************************************************)
main_find ==
    /\ pc = "find"
    /\ LET e == find_next_cmd(head, operation_order)
       IN /\ cmd_elem' = e
          /\ IF e.tag = "None" THEN Exit(1, "Unable to determine the next command.")
             ELSE IF len(e) = 0 THEN Exit(1, "The last command has been done.")
             ELSE IF args.this_branch /\ e = operation_order[1] /\ ~args.use_existing
             THEN Exit(1, "Arg --this_branch is allowed only after the first step.")
             ELSE pc' = "loop" /\ UNCHANGED <<exitCode, exc>>
    /\ UNCHANGED <<head, dirty, branches, env, args, gitcli, operation_order,
                   invoked, edited, commits, lastCommit, done, phase, start, ref, runs,
                   executed, tools, fuvars>>

(***************************************************************************)
(* main(), crd-bumper.py:182-183: loop condition and prologue              *)
(***************************************************************************)
\* prologue raises: the exception's name, "" when it returns, crd-bumper.py:388-396
prologue(g, e, order, h, d) ==
    LET op_cmd_list == [i \in DOMAIN order |-> order[i].name]
    IN IF verify_clean_raises(g, d) THEN "RuntimeError: Workarea is not clean"
       ELSE IF expect_previous_raises(e.name, op_cmd_list, h)
       THEN "ValueError: wants to build on"
       ELSE ""

main_loop ==
    /\ pc = "loop"
    /\ IF ~HasLen(cmd_elem) THEN Exit(1, "TypeError: NoneType has no len()")
       ELSE IF len(cmd_elem) = 0 THEN Exit(0, "")
       ELSE LET r == prologue(gitcli, cmd_elem, operation_order, head, dirty)
            IN IF r # "" THEN Exit(1, r)
               ELSE pc' = "action" /\ UNCHANGED <<exitCode, exc>>
    /\ UNCHANGED <<head, dirty, branches, env, args, gitcli, operation_order,
                   cmd_elem, invoked, edited, commits, lastCommit, done, phase, start, ref,
                   runs, executed, tools, fuvars>>

(***************************************************************************)
(* commit_stage, git_cli.py:139-162                                        *)
(***************************************************************************)
\* h, d: newest commit and tree state when commit_stage is called
commit_stage(g, e, operation, msg_in, h, d) ==
    LET msg == StageMessage(operation, msg_in)
    IN IF g.nocommit
       THEN [raised |-> "", head |-> h, dirty |-> d, committed |-> FALSE]
       ELSE IF ShlexFails(msg)
       THEN [raised |-> "ValueError: No closing quotation", head |-> h, dirty |-> d,
             committed |-> FALSE]
       ELSE IF ~d
       THEN \* nothing to commit: git commit exits 1, git_cli.py:160-161
            [raised |-> "RuntimeError: Unable to commit", head |-> h, dirty |-> d,
             committed |-> FALSE]
       ELSE IF status_fails_after_commit(g, e)
       THEN [raised |-> "RuntimeError: Unable to verify that workarea is clean",
             head |-> GitRecord(msg), dirty |-> FALSE, committed |-> TRUE]
       ELSE IF verify_clean_raises(g, FALSE)
       THEN [raised |-> "RuntimeError: Workarea is not clean", head |-> GitRecord(msg),
             dirty |-> FALSE, committed |-> TRUE]
       ELSE [raised |-> "", head |-> GitRecord(msg), dirty |-> FALSE, committed |-> TRUE]

(***************************************************************************)
(* The step functions, crd-bumper.py:196-366.  Each yields                *)
(*   done      the return value (TRUE when it raised: not used then)       *)
(*   raised    name of the exception, "" when it returned                  *)
(*   head, dirty, edited   the repository afterwards                       *)
(*   committed a commit was created                                        *)
(*   returned  commit_stage returned without raising                       *)
(*   tools     the external commands run (kubebuilder, make)               *)
(***************************************************************************)
Result(ret, raised, h, d, ed, committed, returned, ts) ==
    [done |-> ret, raised |-> raised, head |-> h, dirty |-> d, edited |-> ed,
     committed |-> committed, returned |-> returned, tools |-> ts]

\* the tail every step shares: <edits>; commit_stage(stage, msg); return True
Commit(g, e, stage, msg_in, h, d, ed, ts) ==
    LET c == commit_stage(g, e, stage, msg_in, h, d)
    IN Result(TRUE, c.raised, c.head, c.dirty, ed, c.committed, c.raised = "", ts)

\* an external tool of step fn exits non-zero (never run in dry-run)
ToolFails(g, e, fn) == ~g.dryrun /\ fn \in e.tool_fails

\* the external commands a step runs: none in dry-run, where they are
\* printed, create_apis.py:65-66, make_cmd.py:108-109, webhooks.py:116-118
Runs(g, ts) == IF g.dryrun THEN {} ELSE ts

\* a step going on to its commit after its tool has failed
EditFmtCommit_commit_on_failure(g, e, fn, stage, msg_in, h, d) ==
    LET c == Commit(g, e, stage, msg_in, h, TRUE, TRUE, Runs(g, {"make"}))
    IN IF ToolFails(g, e, fn)
       THEN [c EXCEPT !.raised = "RuntimeError: Unable to make"]
       ELSE c

\* steps of the shape: edit files; make fmt; commit
\* (in dry-run the edits are left as '<path>.new' files)
EditFmtCommit(g, e, fn, stage, msg_in, h, d) ==
    IF ToolFails(g, e, fn)
    THEN Result(TRUE, "RuntimeError: Unable to make", h, TRUE, TRUE, FALSE, FALSE,
                Runs(g, {"make"}))
    ELSE Commit(g, e, stage, msg_in, h, TRUE, TRUE, Runs(g, {"make"}))

\* crd-bumper.py:196-216
create_apis(g, e, stage, msg_in, h, d) ==
    IF ~prev_is_hub(e)
    THEN Result(FALSE, "", h, d, FALSE, FALSE, FALSE, {})
    ELSE IF ToolFails(g, e, "create_apis")
    THEN Result(TRUE, "RuntimeError: Unable to create API", h, d, FALSE, FALSE, FALSE,
                Runs(g, {"kubebuilder"}))
    ELSE LET wrote == IF g.dryrun THEN e.preferred_alias ELSE TRUE
         IN Commit(g, e, stage, msg_in, h, d \/ wrote, wrote, Runs(g, {"kubebuilder"}))

\* crd-bumper.py:219-240
copy_api_content(g, e, stage, msg_in, h, d) ==
    EditFmtCommit(g, e, "copy_api_content", stage, msg_in, h, d)

\* crd-bumper.py:243-262
mv_webhooks(g, e, stage, msg_in, h, d) ==
    EditFmtCommit(g, e, "mv_webhooks", stage, msg_in, h, d)

\* crd-bumper.py:265-286
conversion_webhooks(g, e, stage, msg_in, h, d) ==
    EditFmtCommit(g, e, "conversion_webhooks", stage, msg_in, h, d)

\* crd-bumper.py:289-303
conversion_gen(g, e, stage, msg_in, h, d) ==
    EditFmtCommit(g, e, "conversion_gen", stage, msg_in, h, d)

\* crd-bumper.py:306-324: controllers.run() is called without the
\* final_msgs argument that Controllers.run(self, final_msgs) requires
\* (controllers.py:74), so the call raises TypeError before anything is done
bump_controllers(g, e, stage, msg_in, h, d) ==
    Result(TRUE, "TypeError: missing argument final_msgs", h, d, FALSE, FALSE, FALSE, {})

\* crd-bumper.py:327-348: controllers.bump_earlier_spokes() is called
\* without the final_msgs argument of controllers.py:56: TypeError
bump_apis(g, e, stage, msg_in, h, d) ==
    Result(TRUE, "TypeError: missing argument final_msgs", h, d, FALSE, FALSE, FALSE, {})

\* crd-bumper.py:351-366
auto_gens(g, e, stage, msg_in, h, d) ==
    EditFmtCommit(g, e, "auto_gens", stage, msg_in, h, d)

\* done = cmd_elem[1](cgen, makecmd, gitcli, cmd_elem[0], project, args)
CallStep(fn, g, e, stage, msg_in, h, d) ==
    CASE fn = "create_apis" -> create_apis(g, e, stage, msg_in, h, d)
      [] fn = "copy_api_content" -> copy_api_content(g, e, stage, msg_in, h, d)
      [] fn = "mv_webhooks" -> mv_webhooks(g, e, stage, msg_in, h, d)
      [] fn = "conversion_webhooks" -> conversion_webhooks(g, e, stage, msg_in, h, d)
      [] fn = "conversion_gen" -> conversion_gen(g, e, stage, msg_in, h, d)
      [] fn = "bump_controllers" -> bump_controllers(g, e, stage, msg_in, h, d)
      [] fn = "bump_apis" -> bump_apis(g, e, stage, msg_in, h, d)
      [] fn = "auto_gens" -> auto_gens(g, e, stage, msg_in, h, d)

(***************************************************************************)
(* main(), crd-bumper.py:184-193: call the step, then decide how to go on  *)
(***************************************************************************)
\* the loop without its test of done
Continues_ignoring_done(a, r) == r.raised = "" /\ a.cmd = "all"

\* the loop with its test of args.cmd inverted
Continues_inverted_cmd(a, r) == r.raised = "" /\ r.done /\ a.cmd # "all"

\* the loop without its test of args.cmd
Continues_any_cmd(a, r) == r.raised = "" /\ r.done

\* the loop goes round again: all mode, and the step returned something
\* other than False
Continues(a, r) == r.raised = "" /\ r.done /\ a.cmd = "all"

\* what main() does with the outcome r of the step it called
Finish(r) ==
    /\ LET msg_in == env.msg_in
       IN   /\ head' = r.head
            /\ dirty' = r.dirty
            /\ invoked' = Append(invoked, cmd_elem.name)
            /\ edited' = (edited \/ r.edited)
            /\ tools' = tools \cup r.tools
            /\ commits' = IF r.committed THEN Append(commits, cmd_elem.name) ELSE commits
            /\ lastCommit' = IF r.returned
                             THEN Some([stage |-> cmd_elem.name, msg |-> msg_in])
                             ELSE lastCommit
            /\ done' = IF r.raised # "" THEN done
                       ELSE IF r.done THEN "True" ELSE "False"
            /\ IF r.raised # "" THEN Exit(1, r.raised) /\ UNCHANGED cmd_elem
               ELSE IF ~Continues(args, r)
               THEN \* break, end of main(), sys.exit(0) at crd-bumper.py:420
                    /\ Exit(0, IF r.done THEN "" ELSE "Stop on incomplete step")
                    /\ UNCHANGED cmd_elem
               ELSE /\ cmd_elem' = find_next_cmd(r.head, operation_order)
                    /\ pc' = "loop"
                    /\ UNCHANGED <<exitCode, exc>>
    /\ executed' = Append(executed, cmd_elem.name)
    /\ UNCHANGED <<branches, env, args, gitcli, operation_order, phase, start, ref, runs>>

main_step(fn) ==
    /\ pc = "action"
    /\ cmd_elem.fn = fn
    /\ Finish(CallStep(fn, gitcli, env, cmd_elem.name, env.msg_in, head, dirty))
    /\ UNCHANGED fuvars

(***************************************************************************)
(* The tool is run any number of times, with any arguments                 *)
(***************************************************************************)
Start ==
    /\ runs < MaxRuns
    /\ runs' = runs + 1
    /\ \E a \in ArgSets : main_start(a)
    /\ UNCHANGED <<phase, start, ref, executed, fuvars>>

StepFns == {operation_order_init[i].fn : i \in DOMAIN operation_order_init}

Next ==
    \/ Start
    \/ main_find
    \/ main_loop
    \/ \E fn \in StepFns : main_step(fn)

Spec == Init /\ [][Next]_vars

(***************************************************************************)
(* 'all' against repeated 'step', from the same repository: the 'all'      *)
(* process runs first, its outcome is kept in ref, the repository is put   *)
(* back as it was, and 'step' processes are started one after the other    *)
(* (the first creates the branch, the later ones pass --this-branch) until *)
(* one of them ends without having completed a step.                       *)
(***************************************************************************)
EqArgs(cmd, this_branch, omit_step) ==
    [cmd |-> cmd, dryrun |-> FALSE, nocommit |-> FALSE, this_branch |-> this_branch,
     branch |-> "api-v2", valid |-> TRUE, omit_step |-> omit_step,
     use_existing |-> FALSE]

\* what is compared: steps called, steps committed, recorded step, tree state
Outcome == [executed |-> executed, commits |-> commits,
            previous |-> get_previous(head), dirty |-> dirty]

\* the last process completed a step
Progressed == pc = "exited" /\ exc = "" /\ done = "True" /\ invoked # <<>>

InitEq ==
    /\ head \in InitHeads
    /\ dirty \in BOOLEAN
    /\ branches = {"main"}
    /\ env \in EnvSets
    /\ pc = "idle"
    /\ args = NoArgs
    /\ gitcli = [dryrun |-> FALSE, nocommit |-> FALSE]
    /\ operation_order = operation_order_init
    /\ cmd_elem = NoneElem
    /\ exitCode = 0
    /\ exc = ""
    /\ invoked = <<>>
    /\ edited = FALSE
    /\ commits = <<>>
    /\ lastCommit = None
    /\ done = "unset"
    /\ phase = "all"
    /\ \E o \in OmitChoices : start = Some([head |-> head, dirty |-> dirty, omit_step |-> o])
    /\ ref = None
    /\ runs = 0
    /\ executed = <<>>
    /\ tools = {}
    /\ NoFileUtil

EqStartAll ==
    /\ phase = "all"
    /\ pc = "idle"
    /\ main_start(EqArgs("all", FALSE, start[1].omit_step))
    /\ UNCHANGED <<phase, start, ref, runs, executed, fuvars>>

EqRestore ==
    /\ phase = "all"
    /\ pc = "exited"
    /\ ref' = Some(Outcome)
    /\ phase' = "steps"
    /\ head' = start[1].head
    /\ dirty' = start[1].dirty
    /\ branches' = {"main"}
    /\ commits' = <<>>
    /\ executed' = <<>>
    /\ pc' = "idle"
    /\ args' = NoArgs
    /\ gitcli' = [dryrun |-> FALSE, nocommit |-> FALSE]
    /\ operation_order' = operation_order_init
    /\ cmd_elem' = NoneElem
    /\ exitCode' = 0
    /\ exc' = ""
    /\ invoked' = <<>>
    /\ edited' = FALSE
    /\ lastCommit' = None
    /\ done' = "unset"
    /\ tools' = {}
    /\ UNCHANGED <<env, start, runs, fuvars>>

EqStartStep ==
    /\ phase = "steps"
    /\ pc = "idle" \/ Progressed
    /\ main_start(EqArgs("step", "api-v2" \in branches, start[1].omit_step))
    /\ UNCHANGED <<phase, start, ref, runs, executed, fuvars>>

EqDone ==
    /\ phase = "steps"
    /\ pc = "exited"
    /\ ~Progressed
    /\ phase' = "done"
    /\ UNCHANGED <<head, dirty, branches, env, pc, args, gitcli, operation_order,
                   cmd_elem, exitCode, exc, invoked, edited, commits, lastCommit, done,
                   start, ref, runs, executed, tools, fuvars>>

NextEq ==
    \/ EqStartAll
    \/ EqRestore
    \/ EqStartStep
    \/ EqDone
    \/ main_find
    \/ main_loop
    \/ \E fn \in StepFns : main_step(fn)

SpecEq == InitEq /\ [][NextEq]_vars

(***************************************************************************)
(* Properties of the orchestrator                                          *)
(***************************************************************************)
IndexOfStep(order, n) == CHOOSE i \in DOMAIN order : order[i].name = n
InOrder(order, n) == \E i \in DOMAIN order : order[i].name = n
LastName(order) == order[Len(order)].name
Last(q) == q[Len(q)]

\* the newest commit carries a marker, and it names no step of the list
UnknownMarker(h, order) ==
    /\ get_previous(h) # None
    /\ ~InOrder(order, get_previous(h)[1])

\* cmd_elem holds the selection made for the present newest commit
Selected == pc \in {"loop", "action"}

\* C1: when the newest commit's marker names a step S of the list other
\* than the last, the step selected next is the one right after S.
C1_NextIsSuccessor ==
    \A i \in 1..(Len(operation_order) - 1) :
        (Selected /\ get_previous(head) = Some(operation_order[i].name))
            => cmd_elem = operation_order[i + 1]

C1_Witness ==
    /\ pc = "loop"
    /\ get_previous(head) = Some(<<"copy", "-", "api", "-", "content">>)
    /\ cmd_elem.name = <<"mv", "-", "webhooks">>
    /\ invoked # <<>>

\* C2: a step's action is called only when the newest commit's marker names
\* the step right before it in the list; the first step only when the newest
\* commit carries no marker.
C2_ActionOnlyAfterPredecessor ==
    pc = "action" =>
        LET i == IndexOfStep(operation_order, cmd_elem.name)
        IN /\ InOrder(operation_order, cmd_elem.name)
           /\ IF i = 1 THEN get_previous(head) = None
              ELSE get_previous(head) = Some(operation_order[i - 1].name)

C2_Witness ==
    /\ pc = "action"
    /\ cmd_elem.name = <<"conversion", "-", "gen">>
    /\ get_previous(head) = Some(<<"conversion", "-", "webhooks">>)
    /\ Len(invoked) = 3

\* C3: in every mode, dry-run included, a step's action is called only on
\* a clean working tree.
C3_CleanBeforeAction == pc = "action" => ~dirty

\* C4 as stated: once commit_stage(name, msg) has returned, the newest
\* commit's first line is CRDBUMPER-<name> and get_previous() gives <name>.
C4_RoundTripWhenReturned ==
    lastCommit # None =>
        /\ split1(strip(head), "\n")[1] = PREFIX \o lastCommit[1].stage
        /\ get_previous(head) = Some(lastCommit[1].stage)

\* C4 amended: once commit_stage(name, msg) has returned in a process that
\* commits (neither --dry-run nor --no-commit), the newest commit's first
\* line is CRDBUMPER-<name> and get_previous() gives <name>, whatever msg is.
C4_RoundTripWhenCommitted ==
    (lastCommit # None /\ ~gitcli.nocommit) =>
        /\ split1(strip(head), "\n")[1] = PREFIX \o lastCommit[1].stage
        /\ get_previous(head) = Some(lastCommit[1].stage)

C4_Witness ==
    /\ lastCommit # None
    /\ ~gitcli.nocommit
    /\ lastCommit[1].stage = <<"copy", "-", "api", "-", "content">>
    /\ Count(lastCommit[1].msg, "CRDBUMPER") = 1
    /\ get_previous(head) = Some(<<"copy", "-", "api", "-", "content">>)

\* C5: when the newest commit's marker names no step of the list, no step
\* is selected, the process ends with a non-zero status, no action is called
\* and nothing is written.
C5_UnknownMarkerAborts ==
    (UnknownMarker(head, operation_order) /\ pc \notin {"idle", "find"}) =>
        /\ pc = "exited"
        /\ exitCode # 0
        /\ cmd_elem = NoneElem
        /\ invoked = <<>>
        /\ ~edited
        /\ lastCommit = None

C5_Witness ==
    /\ pc = "exited"
    /\ get_previous(head) = Some(BogusName)
    /\ exc = "Unable to determine the next command."
    /\ exitCode = 1

\* C6: when the newest commit's marker names the last step, the process
\* reports that nothing is left, calls no action and ends with status 0.
C6_NothingLeftExitsZero ==
    (pc = "exited" /\ exc = "The last command has been done.") =>
        /\ invoked = <<>>
        /\ exitCode = 0

\* C7: in all mode, once a step has returned False the process has stopped:
\* that step is the last one called, and the newest commit does not carry
\* its marker.
C7_IncompleteHaltsAll ==
    (args.cmd = "all" /\ done = "False") =>
        /\ pc = "exited"
        /\ Last(invoked) = cmd_elem.name
        /\ get_previous(head) # Some(cmd_elem.name)
        /\ (commits = <<>> \/ Last(commits) # cmd_elem.name)

C7_Witness ==
    /\ args.cmd = "all"
    /\ done = "False"
    /\ pc = "exited"
    /\ invoked = << <<"create", "-", "apis">> >>
    /\ exc = "Stop on incomplete step"

\* C8: in step mode a process never calls a second action, and once it has
\* called one it has ended, whatever the action did.
C8_StepRunsOne ==
    args.cmd = "step" =>
        /\ Len(invoked) <= 1
        /\ (Len(invoked) = 1 => pc = "exited")
        /\ (pc = "action" => invoked = <<>>)

C8_Witness ==
    /\ args.cmd = "step"
    /\ ~gitcli.nocommit
    /\ Len(invoked) = 1
    /\ done = "True"
    /\ commits = invoked
    /\ pc = "exited"

\* C9: an 'all' process that has called at least one step, in a repository
\* whose previous version is the hub and whose external tools all succeed,
\* ends with the last step of the list committed.
C9_AllReachesLastStep ==
    ( /\ pc = "exited"
      /\ args.cmd = "all"
      /\ invoked # <<>>
      /\ prev_is_hub(env)
      /\ env.tool_fails = {}
      /\ exc # "ValueError: No closing quotation" )
        => get_previous(head) = Some(LastName(operation_order))

\* C10: when the repeated 'step' processes have come to their end, the
\* steps called, the steps committed, the recorded step and the state of
\* the tree are those the single 'all' process produced from the same
\* repository.
C10_StepEqualsAll == phase = "done" => ref = Some(Outcome)

C10_Witness ==
    /\ phase = "done"
    /\ ref = Some(Outcome)
    /\ Len(commits) = 5
    /\ Len(executed) = 6
    /\ Last(executed) = <<"bump", "-", "controllers">>

(***************************************************************************)
(* Properties of the steps                                                 *)
(***************************************************************************)
BumpApis == <<"bump", "-", "apis">>
AutoGens == <<"auto", "-", "gens">>
CreateApisName == <<"create", "-", "apis">>
OpCmdList == [i \in DOMAIN operation_order |-> operation_order[i].name]

\* C11: in a repository without earlier spokes, a process whose last step
\* was bump-apis ends without an error and without a commit of that step,
\* and the step then selected from the newest commit is auto-gens, which
\* passes its predecessor check.
C11_ZeroSpokesGoesOn ==
    ( /\ pc = "exited"
      /\ invoked # <<>>
      /\ Last(invoked) = BumpApis
      /\ ~has_earlier_spokes(env) )
        => /\ exc \in {"", "Stop on incomplete step"}
           /\ get_previous(head) # Some(BumpApis)
           /\ find_next_cmd(head, operation_order).name = AutoGens
           /\ ~expect_previous_raises(AutoGens, OpCmdList, head)

\* OMIT_STEP names the k-th step of the full list
Omitted(k) == args.omit_step = Some(operation_order_init[k].name)

\* C12: when OMIT_STEP names a step, the step after it is selected when the
\* newest commit's marker names the step before it, and its action is called
\* on exactly that marker; when OMIT_STEP names no step the process ends
\* with a non-zero status before any action, edit or commit.
C12_AlternatePredecessor ==
    /\ \A k \in 2..(Len(operation_order_init) - 1) :
          /\ ( /\ Omitted(k)
               /\ Selected
               /\ get_previous(head) = Some(operation_order_init[k - 1].name) )
                 => cmd_elem = operation_order_init[k + 1]
          /\ ( /\ Omitted(k)
               /\ pc = "action"
               /\ cmd_elem = operation_order_init[k + 1] )
                 => get_previous(head) = Some(operation_order_init[k - 1].name)
    /\ ( /\ args.omit_step # None
         /\ ~OmitFound(args.omit_step)
         /\ pc # "idle" )
           => /\ pc = "exited"
              /\ exitCode # 0
              /\ invoked = <<>>
              /\ ~edited
              /\ tools = {}
              /\ lastCommit = None

C12_Witness ==
    /\ pc = "action"
    /\ args.omit_step = Some(<<"mv", "-", "webhooks">>)
    /\ cmd_elem.name = <<"conversion", "-", "webhooks">>
    /\ get_previous(head) = Some(<<"copy", "-", "api", "-", "content">>)
    /\ Len(invoked) = 2

\* C13: when api/ holds more than one version and the previous version
\* does not classify as the hub, a process that starts the pipeline ends
\* after the first step's check: no command has been run, no file written
\* and nothing committed.
C13_NotHubTouchesNothing ==
    ( /\ env.api_versions > 1
      /\ ~is_hub(env.conversion_go)
      /\ invoked # <<>>
      /\ invoked[1] = CreateApisName )
        => /\ pc = "exited"
           /\ invoked = <<CreateApisName>>
           /\ done = "False"
           /\ tools = {}
           /\ ~edited
           /\ lastCommit = None
           /\ get_previous(head) = None

C13_Witness ==
    /\ pc = "exited"
    /\ env.api_versions = 2
    /\ is_spoke(env.conversion_go)
    /\ invoked = <<CreateApisName>>
    /\ args.cmd = "all"
    /\ ~gitcli.nocommit
    /\ exc = "Stop on incomplete step"

\* C14: a process that ends on a failed precondition (the previous version
\* is not the hub, the work area is not clean, a bad argument), or without
\* being able to determine the next step, ends with a non-zero status.
C14_FailureExitsNonZero ==
    ( /\ pc = "exited"
      /\ exc \notin {"", "The last command has been done."} )
        => exitCode # 0

\* C16: when a step has returned, the tree is clean if the process commits,
\* and nothing has been written to it if the process is a dry-run.
C16_CommittedOrUnchanged ==
    ( /\ pc = "exited"
      /\ invoked # <<>>
      /\ exc = ""
      /\ done = "True" )
        => IF gitcli.dryrun THEN ~edited
           ELSE (~gitcli.nocommit => ~dirty)

\* the exceptions raised for a command that exits non-zero
ToolErrors ==
    { "RuntimeError: Unable to make", "RuntimeError: Unable to create API",
      "RuntimeError: Unable to commit",
      "RuntimeError: Unable to verify that workarea is clean" }

\* C19 as stated: a step that ends on a command's non-zero exit ends the
\* process with a non-zero status, and no commit has been made: the newest
\* commit is the one the step started from.
C19_ToolFailureNoCommit ==
    [][ (pc = "action" /\ pc' = "exited" /\ exc' \in ToolErrors)
          => /\ exitCode' # 0
             /\ head' = head
             /\ commits' = commits
             /\ lastCommit' = lastCommit ]_vars

\* C19 amended: the same, for every command but the `git status` that
\* verifies the tree after the commit has been created.
C19_ToolFailureBeforeCommit ==
    [][ ( /\ pc = "action"
          /\ pc' = "exited"
          /\ exc' \in ToolErrors \ {"RuntimeError: Unable to verify that workarea is clean"} )
          => /\ exitCode' # 0
             /\ head' = head
             /\ commits' = commits
             /\ lastCommit' = lastCommit ]_vars

C19_Witness ==
    /\ pc = "exited"
    /\ exc = "RuntimeError: Unable to make"
    /\ Len(invoked) = 2
    /\ tools = {"kubebuilder", "make"}
    /\ get_previous(head) = Some(CreateApisName)
    /\ dirty

(***************************************************************************)
(* FileUtil at work on one file, pkg/fileutil.py: an object is made for    *)
(* the path, operations are done on its buffer, and it is stored.  Beside  *)
(* it, the rewrite rules of CreateApis applied to the file, each a         *)
(* FileUtil of its own: read, operations, store.                           *)
(***************************************************************************)
FPath == <<"api/v1/widget.go">>
NewPath(path) == path \o <<".new">>

\* number of operations done on a buffer before it is stored
MaxOps == 2

StorageVersion == <<"//", "+kubebuilder:storageversion">>
StorageVersionSpaced == <<"//", " ", "+kubebuilder:storageversion">>

\* api/<ver>/groupversion_info.go as kubebuilder writes it
GvInfoFile ==
    <<"var", " ", "(", "\n",
      "\t", "AddToScheme", " ", "=", " ", "SchemeBuilder.AddToScheme", "\n",
      ")", "\n">>

\* api/<ver>/<kind>_types.go as kubebuilder writes it, the hub's
TypesFile ==
    <<"//", "+kubebuilder:object:root=true", "\n",
      "//", "+kubebuilder:subresource:status", "\n",
      "//", "+kubebuilder:storageversion", "\n",
      "type", " ", "Widget", " ", "struct", "\n">>

\* a conversion.go with the Hub() of HubFile and the ConvertTo() of SpokeFile
BothFile ==
    HubFile \o
    <<"func", " ", "(src", " ", "*Widget)", " ", "ConvertTo(dstRaw", " ",
      "conversion.Hub)", " ", "error", " ", "{", "\n", "}", "\n">>

\* a file with the version on two lines, and the storage-version marker
\* indented, followed by more text, and alone on a line
MarkersFile ==
    <<"package", " ", "v1", "\n",
      "\t", "//", "+kubebuilder:storageversion", "\n",
      "//", "+kubebuilder:storageversion", " ", "v1", "\n",
      "//", "+kubebuilder:storageversion", "\n">>

\* the Go module of the repository (go.mod), up to the version directory
ModuleApi == "example.com/dws/api/"

\* the group of every Kind in PROJECT, Project.group, project.py:85-88
Group == "dws"

\* the import of the API at version ver under the alias <group><ver>
ImportLine(ver) == <<"\t", Group, ver, " ", "\"", ModuleApi, ver, "\"">>

\* a controller: it imports the API as dwsv1 and uses dwsv1.Widget
ControllerFile ==
    <<"import", " ", "(", "\n">> \o ImportLine("v1") \o <<"\n", ")", "\n",
      "var", " ", "w", " ", Group, "v1", ".", "Widget", "\n">>

\* a controller that also imports another module as mydwsv1 and uses
\* mydwsv1.Thing
OtherAliasFile ==
    <<"import", " ", "(", "\n">> \o ImportLine("v1") \o
    <<"\n", "\t", "my", Group, "v1", " ", "\"", "example.com/my/api/", "v1", "\"", "\n",
      ")", "\n",
      "var", " ", "w", " ", Group, "v1", ".", "Widget", "\n",
      "var", " ", "t", " ", "my", Group, "v1", ".", "Thing", "\n">>

FileContents == {GvInfoFile, TypesFile, HubFile, SpokeFile, BothFile, MarkersFile,
                 ControllerFile, OtherAliasFile}

\* arguments of replace_in_file, delete_from_file and append
ReplaceArgs == { << <<"v1">>, <<"v2">> >>, << <<"\n">>, <<"\n", "\n">> >> }
DeleteArgs == { StorageVersion, <<>> }
AppendArgs == { <<"package", " ", "v1", "\n">> }

\* FileUtil.__init__, fileutil.py:25-28
FileUtil(dryrun, fpath) == [dryrun |-> dryrun, fpath |-> fpath, input_data |-> None]

\* read() raises: the file cannot be opened, fileutil.py:30-39
read_raises(f, fsys) == f.input_data = None /\ fsys[f.fpath] = None

\* read(), fileutil.py:30-36
read(f, fsys) ==
    IF f.input_data = None THEN [f EXCEPT !.input_data = fsys[f.fpath]] ELSE f

\* store() renaming the new file in dry-run too
store_always_renames(f, fsys) ==
    IF f.input_data = None THEN fsys
    ELSE [fsys EXCEPT ![f.fpath] = f.input_data, ![NewPath(f.fpath)] = None]

\* store(), fileutil.py:41-49
store(f, fsys) ==
    IF f.input_data = None THEN fsys
    ELSE LET written == [fsys EXCEPT ![NewPath(f.fpath)] = f.input_data]
         IN IF ~f.dryrun
            THEN [written EXCEPT ![f.fpath] = written[NewPath(f.fpath)],
                                 ![NewPath(f.fpath)] = None]
            ELSE written

\* find_with_pattern for a pattern that is plain text, fileutil.py:88-96
find_with_pattern(data, pat) == FirstLineWith(SplitLines(data), pat)

\* the buffer of f set to data
WithData(f, data) == [f EXCEPT !.input_data = Some(data)]

(***************************************************************************)
(* Rewrite rules of CreateApis, pkg/create_apis.py.  Each yields the       *)
(* exception it raised ("" when it returned) and the files afterwards.     *)
(***************************************************************************)
Applied(raised, fsys) == [raised |-> raised, files |-> fsys]

LocalSchemeBuilder ==
    <<"\n", "\n", "\t", "//", " ", "Used", " ", "by", " ", "zz_generated.conversion.go.",
      "\n", "\t", "localSchemeBuilder", " ", "=", " ", "SchemeBuilder.SchemeBuilder">>

\* create_apis.py:163-177
add_conversion_schemebuilder(path, dryrun, fsys) ==
    LET f0 == FileUtil(dryrun, path)
    IN IF read_raises(f0, fsys) THEN Applied("FileNotFoundError", fsys)
       ELSE LET f1 == read(f0, fsys)
                line == find_with_pattern(f1.input_data[1],
                            <<"AddToScheme", " ", "=", " ", "SchemeBuilder.AddToScheme">>)
            IN IF line = None
               THEN \* str.replace(None, ...)
                    Applied("TypeError: replace() argument 1 must be str", fsys)
               ELSE LET f2 == WithData(f1, replace_in_file(f1.input_data[1], line[1],
                                                           line[1] \o LocalSchemeBuilder))
                    IN Applied("", store(f2, fsys))

\* remove_previous_storage_version knowing the marker without the space only
remove_previous_storage_version_unspaced(path, dryrun, fsys) ==
    LET f0 == FileUtil(dryrun, path)
    IN IF fsys[path] = None THEN Applied("", fsys)
       ELSE LET f1 == read(f0, fsys)
            IN Applied("", store(WithData(f1, delete_from_file(f1.input_data[1],
                                                               StorageVersion)), fsys))

\* create_apis.py:119-135, for one Kind
remove_previous_storage_version(path, dryrun, fsys) ==
    LET f0 == FileUtil(dryrun, path)
    IN IF fsys[path] = None THEN Applied("", fsys)
       ELSE LET f1 == read(f0, fsys)
                changed == delete_changed(f1.input_data[1], StorageVersion)
                f2 == WithData(f1, delete_from_file(f1.input_data[1], StorageVersion))
                f3 == IF ~changed
                      THEN WithData(f2, delete_from_file(f2.input_data[1], StorageVersionSpaced))
                      ELSE f2
            IN Applied("", store(f3, fsys))

\* create_apis.py:137-161, for one Kind
set_storage_version(path, dryrun, fsys) ==
    LET f0 == FileUtil(dryrun, path)
    IN IF fsys[path] = None THEN Applied("", fsys)
       ELSE LET f1 == read(f0, fsys)
                data == f1.input_data[1]
                found == find_in_file(data, <<"+kubebuilder:storageversion">>)
                status == find_in_file(data, <<"+kubebuilder:subresource:status">>)
                line == IF status = None
                        THEN find_in_file(data, <<"+kubebuilder:object:root=true">>)
                        ELSE status
            IN IF found # None THEN Applied("", fsys)
               ELSE IF line = None THEN Applied("LookupError", fsys)
               ELSE Applied("", store(WithData(f1, replace_in_file(data, line[1],
                                   line[1] \o <<"\n">> \o StorageVersionSpaced)), fsys))

(***************************************************************************)
(* Controllers, pkg/controllers.py                                         *)
(***************************************************************************)
\* the fields the rules read, Controllers.__init__, controllers.py:28-46
Controllers(dryrun, prev_ver, new_ver) ==
    [dryrun |-> dryrun, prev_ver |-> prev_ver, new_ver |-> new_ver]

\* the loop of _point_at_new_hub over the Kinds: the import line is found and
\* rewritten, every '<group><prev>.' is rewritten, and the file is stored,
\* controllers.py:161-179
RECURSIVE PointKinds(_, _, _, _)
PointKinds(self, kinds, f, fsys) ==
    IF kinds = <<>> THEN Applied("", fsys)
    ELSE IF read_raises(f, fsys) THEN Applied("FileNotFoundError", fsys)
    ELSE LET f1 == read(f, fsys)
             pat == <<Group, self.prev_ver, " ", "\"", ModuleApi, self.prev_ver, "\"">>
             line == find_in_file(f1.input_data[1], pat)
             f2 == IF line # None
                   THEN WithData(f1, replace_in_file(f1.input_data[1], line[1],
                            Replace(line[1], <<self.prev_ver>>, <<self.new_ver>>)))
                   ELSE f1
             f3 == WithData(f2, replace_in_file(f2.input_data[1],
                                    <<Group, self.prev_ver, ".">>,
                                    <<Group, self.new_ver, ".">>))
         IN PointKinds(self, Tail(kinds), f3, store(f3, fsys))

\* controllers.py:157-179
_point_at_new_hub(self, kinds, path, fsys) ==
    PointKinds(self, kinds, FileUtil(self.dryrun, path), fsys)

Rules == {"add_conversion_schemebuilder", "remove_previous_storage_version",
          "set_storage_version"}

ApplyRule(rule, path, dryrun, fsys) ==
    CASE rule = "add_conversion_schemebuilder" ->
             add_conversion_schemebuilder(path, dryrun, fsys)
      [] rule = "remove_previous_storage_version" ->
             remove_previous_storage_version(path, dryrun, fsys)
      [] rule = "set_storage_version" -> set_storage_version(path, dryrun, fsys)

(***************************************************************************)
(* The specification of FileUtil and the rules                             *)
(***************************************************************************)
\* no process of the tool is looked at
NoProcess ==
    /\ head = HumanMessage
    /\ dirty = FALSE
    /\ branches = {"main"}
    /\ env = [api_versions |-> 1, conversion_go |-> None, tool_fails |-> {},
              preferred_alias |-> FALSE, msg_in |-> <<"body">>]
    /\ pc = "idle"
    /\ args = NoArgs
    /\ gitcli = [dryrun |-> FALSE, nocommit |-> FALSE]
    /\ operation_order = operation_order_init
    /\ cmd_elem = NoneElem
    /\ exitCode = 0
    /\ exc = ""
    /\ invoked = <<>>
    /\ edited = FALSE
    /\ commits = <<>>
    /\ lastCommit = None
    /\ done = "unset"
    /\ phase = "files"
    /\ start = None
    /\ ref = None
    /\ runs = 0
    /\ executed = <<>>
    /\ tools = {}

mainvars == <<head, dirty, branches, env, pc, args, gitcli, operation_order,
              cmd_elem, exitCode, exc, invoked, edited, commits, lastCommit, done,
              phase, start, ref, runs, executed, tools>>

\* the file holds any of the contents or does not exist; a '.new' file may
\* be left from an earlier dry-run
InitFU ==
    /\ NoProcess
    /\ \E c \in {Some(x) : x \in FileContents} \cup {None},
           n \in {None, Some(<<"stale", "\n">>)} :
          files = (FPath :> c) @@ (NewPath(FPath) :> n)
    /\ fu = None
    /\ fupc = "start"
    /\ nops = 0
    /\ applied = [rule |-> "", dryrun |-> FALSE, after |-> <<>>]
    /\ last = NoOperation

FUNew ==
    /\ fupc = "start"
    /\ applied.rule = ""
    /\ \E d \in BOOLEAN : fu' = Some(FileUtil(d, FPath))
    /\ fupc' = "ops"
    /\ UNCHANGED <<mainvars, files, nops, applied, last>>

\* the buffer once read() has been called
Buffer == read(fu[1], files).input_data[1]

\* the operation op called with arg, which set the buffer to data and returned ret
Operation(op, arg, data, ret) ==
    [op |-> op, arg |-> arg, before |-> Buffer, after |-> data, ret |-> ret]

\* an operation on the buffer: read() first, then the buffer is set to data
BufferOp(data, o) ==
    /\ fupc = "ops"
    /\ nops < MaxOps
    /\ IF read_raises(fu[1], files)
       THEN fupc' = "raised" /\ UNCHANGED <<fu, nops, last>>
       ELSE /\ fu' = Some(WithData(fu[1], data))
            /\ nops' = nops + 1
            /\ last' = o
            /\ UNCHANGED fupc
    /\ UNCHANGED <<mainvars, files, applied>>

FUReplace ==
    \E a \in ReplaceArgs :
        BufferOp(replace_in_file(Buffer, a[1], a[2]),
                 Operation("replace_in_file", a, replace_in_file(Buffer, a[1], a[2]),
                           replace_changed(Buffer, a[1], a[2])))

FUDelete ==
    \E a \in DeleteArgs :
        BufferOp(delete_from_file(Buffer, a),
                 Operation("delete_from_file", a, delete_from_file(Buffer, a),
                           delete_changed(Buffer, a)))

\* append returns nothing
FUAppend ==
    \E a \in AppendArgs :
        BufferOp(append(Buffer, a), Operation("append", a, append(Buffer, a), FALSE))

FUStore ==
    /\ fupc = "ops"
    /\ files' = store(fu[1], files)
    /\ fupc' = "stored"
    /\ UNCHANGED <<mainvars, fu, nops, applied, last>>

\* a rule is applied to the file, and once more to what it left
FUApply ==
    /\ fupc = "start"
    /\ Len(applied.after) < 2
    /\ \E rule \in Rules, d \in BOOLEAN :
          /\ applied.rule = "" \/ (applied.rule = rule /\ applied.dryrun = d)
          /\ LET r == ApplyRule(rule, FPath, d, files)
             IN /\ r.raised = ""
                /\ files' = r.files
                /\ applied' = [rule |-> rule, dryrun |-> d,
                               after |-> Append(applied.after, r.files)]
    /\ UNCHANGED <<mainvars, fu, fupc, nops, last>>

\* _point_at_new_hub is applied to the file, outside dry-run
FUPoint ==
    /\ fupc = "start"
    /\ applied.rule = ""
    /\ files[FPath] # None
    /\ LET r == _point_at_new_hub(Controllers(FALSE, "v1", "v2"), <<"Widget">>, FPath, files)
       IN /\ r.raised = ""
          /\ files' = r.files
          /\ last' = [op |-> "_point_at_new_hub", arg |-> <<"Widget">>,
                      before |-> files[FPath][1], after |-> r.files[FPath][1],
                      ret |-> FALSE]
    /\ fupc' = "pointed"
    /\ UNCHANGED <<mainvars, fu, nops, applied>>

NextFU ==
    \/ FUPoint
    \/ FUNew
    \/ FUReplace
    \/ FUDelete
    \/ FUAppend
    \/ FUStore
    \/ FUApply

SpecFU == InitFU /\ [][NextFU]_vars

\* C15: store() of a buffer that was read: outside dry-run the file holds
\* the buffer afterwards and no '<path>.new' is left; in dry-run the file is
\* as it was and '<path>.new' holds the buffer; after any operations on the
\* buffer.
C15_StoreEffect ==
    [][ (fupc = "ops" /\ fupc' = "stored" /\ fu[1].input_data # None)
          => IF fu[1].dryrun
             THEN /\ files'[FPath] = files[FPath]
                  /\ files'[NewPath(FPath)] = fu[1].input_data
             ELSE /\ files'[FPath] = fu[1].input_data
                  /\ files'[NewPath(FPath)] = None ]_vars

C15_Witness ==
    /\ fupc = "stored"
    /\ fu[1].dryrun
    /\ nops = 2
    /\ files[NewPath(FPath)] = fu[1].input_data
    /\ files[NewPath(FPath)] # files[FPath]
    /\ files[FPath] = Some(TypesFile)

\* C18: a rule applied a second time to the files its first application
\* left leaves every file as the first application left it.
C18_RuleIdempotent ==
    Len(applied.after) = 2 => applied.after[2] = applied.after[1]

\* C20: no content of conversion.go classifies as a hub and as a spoke.
C20_HubXorSpoke ==
    fupc # "none" => ~(is_hub(files[FPath]) /\ is_spoke(files[FPath]))

\* the characters that end an identifier of Go
Separators == {" ", "\t", "\n", "\"", ".", "(", ")"}

\* token i of s is the version of the alias <group><ver>: the group is
\* before it and an identifier begins there
AliasVersionAt(s, i) ==
    /\ i > 1
    /\ s[i - 1] = Group
    /\ i > 2 => s[i - 2] \in Separators

\* token i of s is the version at the end of the path of the module's API
PathVersionAt(s, i) == i > 1 /\ s[i - 1] = ModuleApi

\* C27: in a file that _point_at_new_hub has edited, the import of the
\* previous version under the alias <group><prev> has become the import of
\* the new version under <group><new>, and nothing else of the file differs
\* but the version of that alias where the alias is used: an identifier that
\* only ends in the alias, or the import of another module, is as it was.
C27_OnlyAliasRetargeted ==
    (last.op = "_point_at_new_hub" /\ Contains(last.before, ImportLine("v1"))) =>
        /\ Contains(last.after, ImportLine("v2"))
        /\ ~Contains(last.after, ImportLine("v1"))
        /\ Len(last.after) = Len(last.before)
        /\ \A i \in 1..Len(last.before) :
              last.after[i] # last.before[i] =>
                  AliasVersionAt(last.before, i) \/ PathVersionAt(last.before, i)

\* occurrences of t in s that do not overlap, counted from the left
RECURSIVE Occurrences(_, _)
Occurrences(s, t) ==
    IF t = <<>> \/ Len(s) < Len(t) THEN 0
    ELSE IF startswith(s, t) THEN 1 + Occurrences(SubSeq(s, Len(t) + 1, Len(s)), t)
    ELSE Occurrences(Tail(s), t)

\* C29: replace_in_file(old, new) replaces every occurrence of old in the
\* buffer, on whatever line: the buffer changes in length by the difference
\* of new and old for each occurrence, holds new at least as often as it
\* held old, and holds old no more unless new itself holds it; and it
\* returns True exactly when the buffer afterwards differs from before.
C29_ReplaceEveryOccurrence ==
    last.op = "replace_in_file" =>
        LET old == last.arg[1]
            new == last.arg[2]
        IN /\ Len(last.after) =
                Len(last.before) + Occurrences(last.before, old) * (Len(new) - Len(old))
           /\ Occurrences(last.after, new) >= Occurrences(last.before, old)
           /\ ~Contains(new, old) => ~Contains(last.after, old)
           /\ last.ret = (last.after # last.before)

C29_Witness ==
    /\ last.op = "replace_in_file"
    /\ last.arg = << <<"v1">>, <<"v2">> >>
    /\ last.before = MarkersFile
    /\ Occurrences(last.before, <<"v1">>) = 2
    /\ Occurrences(last.after, <<"v2">>) = 2
    /\ last.ret

\* the lines of a buffer that delete_from_file has written: each ends in "\n"
WrittenLines(data) == SubSeq(SplitLines(data), 1, Len(SplitLines(data)) - 1)

\* C30: delete_from_file(line) leaves, in their order, exactly the lines
\* that are not equal to the given string, so a line that has the string
\* with an indentation or with more text after it stays; and it returns True
\* exactly when a line was removed.
C30_DeleteExactLines ==
    last.op = "delete_from_file" =>
        /\ WrittenLines(last.after) =
              SelectSeq(SplitLines(last.before), LAMBDA l : l # last.arg)
        /\ last.ret = (Len(WrittenLines(last.after)) < Len(SplitLines(last.before)))

C30_Witness ==
    /\ last.op = "delete_from_file"
    /\ last.arg = StorageVersion
    /\ last.before = MarkersFile
    /\ last.ret
    /\ WrittenLines(last.after) =
          << <<"package", " ", "v1">>,
             <<"\t", "//", "+kubebuilder:storageversion">>,
             <<"//", "+kubebuilder:storageversion", " ", "v1">>,
             <<>> >>

(***************************************************************************)
(* A step fails after it has written to the tree and before its commit,    *)
(* and the tool is run again with the same subcommand, with or without     *)
(* --this-branch.                                                          *)
(***************************************************************************)
InitRetry ==
    /\ head \in InitHeads
    /\ dirty \in BOOLEAN
    /\ branches = {"main"}
    /\ env \in EnvSets
    /\ pc = "idle"
    /\ args = NoArgs
    /\ gitcli = [dryrun |-> FALSE, nocommit |-> FALSE]
    /\ operation_order = operation_order_init
    /\ cmd_elem = NoneElem
    /\ exitCode = 0
    /\ exc = ""
    /\ invoked = <<>>
    /\ edited = FALSE
    /\ commits = <<>>
    /\ lastCommit = None
    /\ done = "unset"
    /\ phase = "retry"
    /\ start = None
    /\ ref = None
    /\ runs = 0
    /\ executed = <<>>
    /\ tools = {}
    /\ NoFileUtil

RetryFirst ==
    /\ phase = "retry"
    /\ runs = 0
    /\ pc = "idle"
    /\ runs' = 1
    /\ \E cmd \in {"all", "step"} : main_start(EqArgs(cmd, FALSE, None))
    /\ UNCHANGED <<phase, start, ref, executed, fuvars>>

\* the last step called raised after writing to the tree, its commit not made
FailedAfterEdits ==
    /\ pc = "exited"
    /\ exc # ""
    /\ invoked # <<>>
    /\ edited
    /\ dirty
    /\ get_previous(head) # Some(Last(invoked))

RetryAgain ==
    /\ phase = "retry"
    /\ runs = 1
    /\ FailedAfterEdits
    /\ runs' = 2
    /\ start' = Some([step |-> Last(invoked)])
    /\ \E this_branch \in BOOLEAN : main_start(EqArgs(args.cmd, this_branch, None))
    /\ UNCHANGED <<phase, ref, executed, fuvars>>

NextRetry ==
    \/ RetryFirst
    \/ RetryAgain
    \/ main_find
    \/ main_loop
    \/ \E fn \in StepFns : main_step(fn)

SpecRetry == InitRetry /\ [][NextRetry]_vars

\* C17: when the tool is run again after a step failed between its edits
\* and its commit, the process selects that step again and calls its action.
C17_RetryRunsStep ==
    (phase = "retry" /\ runs = 2 /\ pc = "exited")
        => /\ invoked # <<>>
           /\ invoked[1] = start[1].step

(***************************************************************************)
(* The working tree of a repository: PROJECT, and the files the steps      *)
(* read and write.  PROJECT is held as the YAML it parses to: the list     *)
(* 'resources', each entry with its kind, its version, whether it has an   *)
(* 'api' block, and its 'webhooks' block (None when it has none).          *)
(***************************************************************************)
\* --prev-ver and --new-ver, crd-bumper.py:37-48
PrevVer == "v1alpha1"
NewVer == "v1alpha2"

\* the Kind names, in the order of str
KindNames == <<"Node", "Storage", "Workflow">>

Rank(k) == CHOOSE i \in DOMAIN KindNames : KindNames[i] = k

\* str.lower()
lower(k) ==
    CASE k = "Node" -> "node"
      [] k = "Storage" -> "storage"
      [] k = "Workflow" -> "workflow"

Resource(kind, version, api, webhooks) ==
    [kind |-> kind, version |-> version, api |-> api, webhooks |-> webhooks]

\* list.sort() of Kind names
RECURSIVE InsertSorted(_, _)
InsertSorted(k, sorted) ==
    IF sorted = <<>> THEN <<k>>
    ELSE IF Rank(k) < Rank(Head(sorted)) THEN <<k>> \o sorted
    ELSE <<Head(sorted)>> \o InsertSorted(k, Tail(sorted))

RECURSIVE sort(_)
sort(l) == IF l = <<>> THEN <<>> ELSE InsertSorted(Head(l), sort(Tail(l)))

\* Project.kinds, project.py:52-63
kinds(yaml, version) ==
    LET entries == SelectSeq(yaml, LAMBDA entry : entry.api /\ entry.version = version)
    IN sort([i \in 1..Len(entries) |-> entries[i].kind])

\* k in kinds
In(k, ks) == \E i \in DOMAIN ks : ks[i] = k

\* Project.find_idx, 0 for the exception, project.py:90-95
find_idx(yaml, kind, version) ==
    IF \E i \in DOMAIN yaml : yaml[i].kind = kind /\ yaml[i].version = version
    THEN CHOOSE i \in DOMAIN yaml :
            /\ yaml[i].kind = kind /\ yaml[i].version = version
            /\ \A j \in 1..(i - 1) : ~(yaml[j].kind = kind /\ yaml[j].version = version)
    ELSE 0

\* Project.has_webhooks, project.py:81-83
has_webhooks(yaml, kind, version) == yaml[find_idx(yaml, kind, version)].webhooks # None

\* mv_webhooks leaving the block on the record it is moved from
Project_mv_webhooks_copying(yaml, kind, from_ver, to_ver) ==
    LET from_idx == find_idx(yaml, kind, from_ver)
        to_idx == find_idx(yaml, kind, to_ver)
    IN IF yaml[from_idx].webhooks # None
       THEN [yaml EXCEPT ![to_idx].webhooks = yaml[from_idx].webhooks]
       ELSE yaml

\* Project.mv_webhooks, project.py:97-105
Project_mv_webhooks(yaml, kind, from_ver, to_ver) ==
    LET from_idx == find_idx(yaml, kind, from_ver)
        to_idx == find_idx(yaml, kind, to_ver)
    IN IF yaml[from_idx].webhooks # None
       THEN [yaml EXCEPT ![to_idx].webhooks = yaml[from_idx].webhooks,
                         ![from_idx].webhooks = None]
       ELSE yaml

\* the paths
ProjectPath == <<"PROJECT">>
MainPath == <<"cmd/main.go">>
ManifestsPath == <<"config/webhook/manifests.yaml">>
BoilerplatePath == <<"hack/boilerplate.go.txt">>
SuiteConversionPath == <<"internal/controller/conversion_test.go">>
ApiDir(ver) == <<"api/", ver, "/">>
ConversionPath(ver) == ApiDir(ver) \o <<"conversion.go">>
GvInfoPath(ver) == ApiDir(ver) \o <<"groupversion_info.go">>
DocPath(ver) == ApiDir(ver) \o <<"doc.go">>
TypesPath(ver, k) == ApiDir(ver) \o <<lower(k), "_types.go">>
WebhookPath(ver, k) == ApiDir(ver) \o <<lower(k), "_webhook", ".go">>
DeepcopyPath(ver) == ApiDir(ver) \o <<"zz_", "generated.deepcopy.go">>
DefaultsPath(ver) == ApiDir(ver) \o <<"zz_", "generated.defaults.go">>

Kinds == {KindNames[i] : i \in DOMAIN KindNames}
Versions == {PrevVer, NewVer}

ApiPaths(ver) ==
    {ConversionPath(ver), GvInfoPath(ver), DocPath(ver), DeepcopyPath(ver),
     DefaultsPath(ver)}
    \cup {TypesPath(ver, k) : k \in Kinds} \cup {WebhookPath(ver, k) : k \in Kinds}

RepoPaths ==
    {ProjectPath, MainPath, ManifestsPath, BoilerplatePath, SuiteConversionPath}
    \cup ApiPaths(PrevVer) \cup ApiPaths(NewVer)

\* os.path.isfile
isfile(fsys, path) == fsys[path] # None

\* the files os.walk("api/<ver>") finds
walk(fsys, ver) == {p \in ApiPaths(ver) : isfile(fsys, p)}

\* the directories os.walk("api") finds first: the versions with files
dir_names(fsys) == {ver \in Versions : walk(fsys, ver) # {}}

\* fname of an API path
fname(path) == SubSeq(path, 4, Len(path))

\* shutil.copy2(src, dst)
copy2(fsys, src, dst) == [fsys EXCEPT ![dst] = fsys[src]]

\* `git mv src dst`
git_mv(fsys, src, dst) == [fsys EXCEPT ![dst] = fsys[src], ![src] = None]

(***************************************************************************)
(* What the files hold                                                     *)
(***************************************************************************)
Boilerplate == <<"/*", " ", "Copyright", " ", "*/", "\n">>

\* api/<ver>/<kind>_types.go as `kubebuilder create api` scaffolds it; the
\* hub of a repository with several versions has the storage-version marker
\* (marked is the line of the marker, <<>> for none)
KindTypes(ver, k, marked) ==
    <<"package", " ", ver, "\n",
      "//", "+kubebuilder:object:root=true", "\n",
      "//", "+kubebuilder:subresource:status", "\n">> \o
    (IF marked # <<>> THEN marked \o <<"\n">> ELSE <<>>) \o
    <<"type", " ", k, " ", "struct", "\n">>

\* api/<ver>/groupversion_info.go
GvInfo(ver) == <<"package", " ", ver, "\n">> \o GvInfoFile

\* api/<ver>/zz_generated.deepcopy.go and zz_generated.defaults.go
Generated(ver) == <<"//", " ", "Code", " ", "generated.", "\n", "package", " ", ver, "\n">>

\* api/<ver>/<kind>_webhook.go with a validating webhook
KindWebhook(ver, k) ==
    <<"package", " ", ver, "\n",
      "//", "+kubebuilder:webhook:path=/validate", "-", Group, "-", ver, "-", lower(k), ",",
      "versions=", ver, ",", "name=v", lower(k), ".kb.io", "\n">>

\* cmd/main.go: the import of the API and a SetupWebhookWithManager per Kind
RECURSIVE MainSetup(_, _)
MainSetup(ver, ks) ==
    IF ks = <<>> THEN <<>>
    ELSE <<"\t", "(", "&", Group, ver, ".", Head(ks), "{}", ")", ".",
           "SetupWebhookWithManager(mgr)", "\n">> \o MainSetup(ver, Tail(ks))

MainGo(ver, ks) ==
    <<"package", " ", "main", "\n", "import", " ", "(", "\n">> \o ImportLine(ver) \o
    <<"\n", ")", "\n">> \o MainSetup(ver, ks)

\* config/webhook/manifests.yaml
RECURSIVE ManifestEntries(_, _)
ManifestEntries(ver, ks) ==
    IF ks = <<>> THEN <<>>
    ELSE <<"path:", " ", "/validate", "-", Group, "-", ver, "-", lower(Head(ks)), "\n",
           "apiVersions:", "\n", "-", " ", ver, "\n">> \o ManifestEntries(ver, Tail(ks))

(***************************************************************************)
(* The methods the steps call.  Each takes the object's fields (self), the *)
(* PROJECT the process has loaded (yaml) and the work so far (w): the      *)
(* files, the exception raised ("" when none), whether files outside the   *)
(* paths above were written, and the external commands run.                *)
(***************************************************************************)
\* the fields CreateApis, MvWebhooks, ConversionWebhooks and ConversionGen
\* keep, create_apis.py:31-39; the preferred alias is None: cmd/main.go
\* imports the API as <group><ver>, conversion_gen.py:54-83
Self(dryrun) == [dryrun |-> dryrun, prev_ver |-> PrevVer, new_ver |-> NewVer]

Work(fsys) == [files |-> fsys, raised |-> "", edited |-> FALSE, tools |-> {}, done |-> TRUE]

Raise(w, e) == [w EXCEPT !.raised = e]

\* a statement after another: an exception raised before it skips it
Try(w, next) == IF w.raised # "" THEN w ELSE next

\* a FileUtil made for path, its buffer set to data, and stored
Stored(self, path, data, fsys) ==
    store(WithData(FileUtil(self.dryrun, path), data), fsys)

\* a file outside the paths above is stored, or an external command writes one
Touch(w) == Try(w, [w EXCEPT !.edited = TRUE])

\* `kubebuilder create api --group <group> --version <ver> --kind <k>
\* --resource --controller=false`: the entry in PROJECT, the scaffolded
\* files, the import in cmd/main.go, create_apis.py:63
kubebuilder_create_api(fsys, ver, k) ==
    LET main == fsys[MainPath][1]
        imported == IF Contains(main, ImportLine(ver)) THEN main
                    ELSE Replace(main, ImportLine(PrevVer),
                                 ImportLine(PrevVer) \o <<"\n">> \o ImportLine(ver))
    IN [fsys EXCEPT ![ProjectPath] = Some(Append(fsys[ProjectPath][1],
                                                 Resource(k, ver, TRUE, None))),
                    ![TypesPath(ver, k)] = Some(KindTypes(ver, k, <<>>)),
                    ![GvInfoPath(ver)] = Some(GvInfo(ver)),
                    ![DeepcopyPath(ver)] = Some(Generated(ver)),
                    ![MainPath] = Some(imported)]

\* the loop of CreateApis.create, create_apis.py:60-78; kubebuilder exits
\* non-zero when PROJECT has the resource already
RECURSIVE CreateLoop(_, _, _, _)
CreateLoop(self, ks, kinds_new_ver, w) ==
    IF ks = <<>> \/ w.raised # "" THEN w
    ELSE IF In(Head(ks), kinds_new_ver) \/ self.dryrun
    THEN CreateLoop(self, Tail(ks), kinds_new_ver, w)
    ELSE IF find_idx(w.files[ProjectPath][1], Head(ks), self.new_ver) # 0
    THEN [w EXCEPT !.raised = "RuntimeError: Unable to create API",
                   !.tools = @ \cup {"kubebuilder"}]
    ELSE CreateLoop(self, Tail(ks), kinds_new_ver,
                    [w EXCEPT !.files = kubebuilder_create_api(w.files, self.new_ver, Head(ks)),
                              !.tools = @ \cup {"kubebuilder"}])

\* CreateApis.create, create_apis.py:52-78
CreateApis_create(self, yaml, w) ==
    IF kinds(yaml, self.prev_ver) = <<>> THEN Raise(w, "ValueError: Nothing found at version")
    ELSE CreateLoop(self, kinds(yaml, self.prev_ver), kinds(yaml, self.new_ver), w)

\* CreateApis.prev_is_hub on the tree, create_apis.py:41-50
tree_prev_is_hub(self, fsys) ==
    prev_is_hub([api_versions |-> Cardinality(dir_names(fsys)),
                 conversion_go |-> fsys[ConversionPath(self.prev_ver)]])

\* ConversionGen.fix_kubebuilder_import_alias: nothing to do when the
\* preferred alias is None, conversion_gen.py:85-92
fix_kubebuilder_import_alias(self, w) == w

\* the first loop of copy_content: the <kind>_types.go of the Kinds at both
\* versions, create_apis.py:88-95
RECURSIVE CopyTypes(_, _, _, _)
CopyTypes(self, kinds_new_ver, kinds_prev_ver, fsys) ==
    IF kinds_new_ver = <<>> THEN fsys
    ELSE LET k == Head(kinds_new_ver)
             src == TypesPath(self.prev_ver, k)
             dst == TypesPath(self.new_ver, k)
         IN CopyTypes(self, Tail(kinds_new_ver), kinds_prev_ver,
                      IF In(k, kinds_prev_ver) /\ isfile(fsys, src) /\ isfile(fsys, dst)
                      THEN copy2(fsys, src, dst) ELSE fsys)

\* the names copy_content leaves where they are, create_apis.py:98-105
skip ==
    { <<"doc.go">>, <<"groupversion_info.go">>, <<"conversion.go">>,
      <<"conversion_test.go">>, <<"zz_", "generated.deepcopy.go">>,
      <<"zz_", "generated.conversion.go">> }

\* "webhook" in fname
has_webhook(path) == \E i \in DOMAIN path : path[i] = "_webhook"

\* the second loop of copy_content, over the files found in api/<prev>:
\* the webhooks are moved with git, the others copied, create_apis.py:106-117.
\* `fname in copied` is never true: copied holds paths, not names.
RECURSIVE CopyExtras(_, _, _)
CopyExtras(self, paths, w) ==
    IF paths = {} \/ w.raised # "" THEN w
    ELSE LET full_path == CHOOSE p \in paths : TRUE
             dst_path == Replace(full_path, ApiDir(self.prev_ver), ApiDir(self.new_ver))
             rest == paths \ {full_path}
         IN IF fname(full_path) \in skip THEN CopyExtras(self, rest, w)
            ELSE IF has_webhook(full_path)
            THEN (IF self.dryrun THEN CopyExtras(self, rest, w)
                  ELSE IF isfile(w.files, dst_path)
                  THEN Raise(w, "RuntimeError: Unable to execute command to move code")
                  ELSE CopyExtras(self, rest,
                           [w EXCEPT !.files = git_mv(w.files, full_path, dst_path)]))
            ELSE CopyExtras(self, rest, [w EXCEPT !.files = copy2(w.files, full_path, dst_path)])

\* CreateApis.copy_content, create_apis.py:80-117
copy_content(self, yaml, w) ==
    IF kinds(yaml, self.prev_ver) = <<>> THEN Raise(w, "ValueError: Nothing found at version")
    ELSE CopyExtras(self, walk(w.files, self.prev_ver),
             [w EXCEPT !.files = CopyTypes(self, kinds(yaml, self.new_ver),
                                           kinds(yaml, self.prev_ver), w.files)])

\* the rewrites of edit_new_api_files for the Kinds, create_apis.py:194-212
RECURSIVE EditForKinds(_, _, _)
EditForKinds(self, ks, data) ==
    IF ks = <<>> THEN data
    ELSE LET line == find_in_file(data, <<"\t", Group, self.prev_ver, " ">>)
             data1 == IF line # None
                      THEN replace_in_file(data, line[1], ImportLine(self.new_ver))
                      ELSE data
         IN EditForKinds(self, Tail(ks),
                replace_in_file(data1, <<Group, self.prev_ver, ".">>,
                                <<Group, self.new_ver, ".">>))

\* the rewrites of edit_new_api_files on the buffer of one file,
\* create_apis.py:191-212
EditFile(self, ks, data) ==
    EditForKinds(self, ks,
        replace_in_file(data, <<"package", " ", self.prev_ver>>,
                        <<"package", " ", self.new_ver>>))

\* the loop of edit_new_api_files over the files found in api/<new>: each
\* is read, rewritten and stored, create_apis.py:186-213
EditFiles(self, ks, paths, fsys) ==
    [p \in DOMAIN fsys |->
        IF \E q \in paths : p \in {q, NewPath(q)}
        THEN LET full_path == CHOOSE q \in paths : p \in {q, NewPath(q)}
             IN Stored(self, full_path, EditFile(self, ks, fsys[full_path][1]), fsys)[p]
        ELSE fsys[p]]

\* CreateApis.edit_new_api_files, create_apis.py:179-213
edit_new_api_files(self, yaml, w) ==
    Try(w, [w EXCEPT !.files = EditFiles(self, kinds(yaml, self.new_ver),
                                         walk(w.files, self.new_ver), w.files)])

\* a rule of CreateApis applied to one file
OnFile(rule, self, path, w) ==
    Try(w, LET r == ApplyRule(rule, path, self.dryrun, w.files)
           IN [w EXCEPT !.files = r.files, !.raised = r.raised])

\* a rule of CreateApis for one Kind applied to the <kind>_types.go of each
\* Kind at version ver
RECURSIVE ForKinds(_, _, _, _, _)
ForKinds(rule, self, ver, ks, w) ==
    IF ks = <<>> THEN w
    ELSE ForKinds(rule, self, ver, Tail(ks), OnFile(rule, self, TypesPath(ver, Head(ks)), w))

\* MakeCmd.fmt, make_cmd.py:104-119
fmt(self, w) == Try(w, [w EXCEPT !.tools = @ \cup Runs(self, {"make"})])

\* the rewrites of MvWebhooks.edit_go_files on the buffer of one file,
\* webhooks.py:46-47
EditWebhookFile(self, data) ==
    replace_in_file(
        replace_in_file(data, <<"-", self.prev_ver, "-">>, <<"-", self.new_ver, "-">>),
        <<"versions=", self.prev_ver, ",">>, <<"versions=", self.new_ver, ",">>)

\* the loop of MvWebhooks.edit_go_files over the files found in api/<new>
\* with "webhook" in their name: each is read, rewritten and stored,
\* webhooks.py:40-48
EditWebhookFiles(self, paths, fsys) ==
    [p \in DOMAIN fsys |->
        IF \E q \in paths : has_webhook(q) /\ p \in {q, NewPath(q)}
        THEN LET full_path == CHOOSE q \in paths : has_webhook(q) /\ p \in {q, NewPath(q)}
             IN Stored(self, full_path, EditWebhookFile(self, fsys[full_path][1]), fsys)[p]
        ELSE fsys[p]]

\* the loop over the Kinds in cmd/main.go, webhooks.py:54-60
RECURSIVE MainForKinds(_, _, _)
MainForKinds(self, ks, data) ==
    IF ks = <<>> THEN data
    ELSE MainForKinds(self, Tail(ks),
             replace_in_file(data, <<Group, self.prev_ver, ".", Head(ks)>>,
                             <<Group, self.new_ver, ".", Head(ks)>>))

\* MvWebhooks.edit_go_files, webhooks.py:39-61
edit_go_files(self, yaml, w) ==
    LET fsys1 == EditWebhookFiles(self, walk(w.files, self.new_ver), w.files)
        ks == kinds(yaml, self.prev_ver)
    IN IF ks = <<>> THEN [w EXCEPT !.files = fsys1]
       ELSE IF ~isfile(fsys1, MainPath) THEN Raise(w, "FileNotFoundError")
       ELSE [w EXCEPT !.files =
                Stored(self, MainPath, MainForKinds(self, ks, fsys1[MainPath][1]), fsys1)]

\* the loop over the Kinds in the manifests, webhooks.py:66-68
RECURSIVE ManifestsForKinds(_, _, _)
ManifestsForKinds(self, ks, data) ==
    IF ks = <<>> THEN data
    ELSE LET data1 == replace_in_file(data, <<"-", " ", self.prev_ver>>,
                                      <<"-", " ", self.new_ver>>)
         IN ManifestsForKinds(self, Tail(ks),
                replace_in_file(data1, <<"-", self.prev_ver, "-", lower(Head(ks))>>,
                                <<"-", self.new_ver, "-", lower(Head(ks))>>))

\* MvWebhooks.edit_manifests, webhooks.py:63-69
edit_manifests(self, yaml, w) ==
    LET ks == kinds(yaml, self.prev_ver)
    IN IF ks = <<>> \/ w.raised # "" THEN w
       ELSE IF ~isfile(w.files, ManifestsPath) THEN Raise(w, "FileNotFoundError")
       ELSE [w EXCEPT !.files =
                Stored(self, ManifestsPath,
                       ManifestsForKinds(self, ks, w.files[ManifestsPath][1]),
                       w.files)]

\* Project.store: PROJECT.new is written and, outside dry-run, renamed,
\* project.py:43-50
Project_store(self, yaml, fsys) ==
    LET written == [fsys EXCEPT ![NewPath(ProjectPath)] = Some(yaml)]
    IN IF ~self.dryrun
       THEN [written EXCEPT ![ProjectPath] = written[NewPath(ProjectPath)],
                            ![NewPath(ProjectPath)] = None]
       ELSE written

\* the loop of mv_project_webhooks, webhooks.py:81-82
RECURSIVE MoveForKinds(_, _, _)
MoveForKinds(self, ks, yaml) ==
    IF ks = <<>> THEN yaml
    ELSE MoveForKinds(self, Tail(ks),
                      Project_mv_webhooks(yaml, Head(ks), self.prev_ver, self.new_ver))

\* mv_project_webhooks going on when the lists of Kinds differ
mv_project_webhooks_unchecked(self, yaml, w) ==
    LET ks == SelectSeq(kinds(yaml, self.prev_ver),
                        LAMBDA k : find_idx(yaml, k, self.new_ver) # 0)
    IN Try(w, [w EXCEPT !.files = Project_store(self, MoveForKinds(self, ks, yaml), w.files)])

\* MvWebhooks.mv_project_webhooks, webhooks.py:71-83; Project.store,
\* project.py:43-50
mv_project_webhooks(self, yaml, w) ==
    LET ks == kinds(yaml, self.prev_ver)
        kinds_new_ver == kinds(yaml, self.new_ver)
    IN IF w.raised # "" THEN w
       ELSE IF ks # kinds_new_ver THEN Raise(w, "SystemExit: 1")
       ELSE [w EXCEPT !.files = Project_store(self, MoveForKinds(self, ks, yaml), w.files)]

\* `kubebuilder create webhook --group <group> --version <ver> --kind <k>
\* --conversion`: the webhooks block in PROJECT and the scaffolded
\* <kind>_webhook.go, webhooks.py:114
kubebuilder_create_webhook(fsys, ver, k) ==
    LET disk == fsys[ProjectPath][1]
    IN [fsys EXCEPT ![ProjectPath] =
                        Some([disk EXCEPT ![find_idx(disk, k, ver)].webhooks = <<"conversion">>]),
                    ![WebhookPath(ver, k)] =
                        Some(<<"package", " ", ver, "\n", "func", " ", "(r", " ", "*", k, ")",
                               " ", "SetupWebhookWithManager(mgr)", "\n">>)]

\* the loop of ConversionWebhooks.create, webhooks.py:111-131; the
\* suite_test.go and the <kind>_webhook_test.go that _update_suite_test and
\* _edit_test_comment store are outside the paths above
RECURSIVE CreateWebhookLoop(_, _, _, _)
CreateWebhookLoop(self, ks, yaml, w) ==
    IF ks = <<>> \/ w.raised # "" THEN w
    ELSE IF find_idx(yaml, Head(ks), self.new_ver) = 0
    THEN Raise(w, "Exception: unable to find resource API")
    ELSE IF has_webhooks(yaml, Head(ks), self.new_ver) \/ self.dryrun
    THEN CreateWebhookLoop(self, Tail(ks), yaml, w)
    ELSE CreateWebhookLoop(self, Tail(ks), yaml,
             [w EXCEPT !.files = kubebuilder_create_webhook(w.files, self.new_ver, Head(ks)),
                       !.tools = @ \cup {"kubebuilder"},
                       !.edited = TRUE])

\* ConversionWebhooks.create, webhooks.py:106-133
ConversionWebhooks_create(self, yaml, w) ==
    CreateWebhookLoop(self, kinds(yaml, self.prev_ver), yaml, w)

\* the Hub() lines of the Kinds, with suffix "" or "List", webhooks.py:144-149
RECURSIVE HubLines(_, _)
HubLines(ks, suffix) ==
    IF ks = <<>> THEN <<>>
    ELSE <<"func", " ", "(*", Head(ks)>> \o suffix \o <<")", " ", "Hub()", " ", "{}", "\n">>
         \o HubLines(Tail(ks), suffix)

\* what ConversionWebhooks.hub appends, webhooks.py:142-149
HubText(ver, ks) ==
    <<"\n", "package", " ", ver, "\n", "\n">> \o HubLines(ks, <<>>) \o
    <<"\n", "//", " ", "The", " ", "conversion-verifier", " ", "tool", " ", "wants", " ",
      "these...though", " ", "they're", " ", "never", " ", "used.", "\n">> \o
    HubLines(ks, <<"List">>)

\* ConversionWebhooks.hub, webhooks.py:135-151
hub(self, yaml, w) ==
    LET hub_file == ConversionPath(self.new_ver)
        fsys1 == copy2(w.files, BoilerplatePath, hub_file)
    IN IF isfile(w.files, hub_file) \/ w.raised # "" THEN w
       ELSE [w EXCEPT !.files =
                Stored(self, hub_file,
                       append(fsys1[hub_file][1],
                              HubText(self.new_ver, kinds(yaml, self.new_ver))),
                       fsys1)]

\* ConversionGen.mk_doc_go, conversion_gen.py:126-144; in dry-run the
\* boilerplate is not copied and the file is read as it is
mk_doc_go(self, w) ==
    LET docgo == DocPath(self.prev_ver)
        fsys1 == IF ~self.dryrun THEN copy2(w.files, BoilerplatePath, docgo) ELSE w.files
    IN IF ~isfile(fsys1, docgo) THEN Raise(w, "FileNotFoundError")
       ELSE [w EXCEPT !.files =
                Stored(self, docgo,
                       append(fsys1[docgo][1],
                              <<"\n", "//", " ", "+k8s:conversion-gen=", ModuleApi, self.new_ver,
                                "\n", "package", " ", self.prev_ver, "\n">>),
                       fsys1)]

\* the ConvertTo and ConvertFrom of the Kinds, with suffix "" or "List",
\* conversion_gen.py:215-256, 278-294
RECURSIVE SpokeFuncs(_, _, _)
SpokeFuncs(ver, ks, suffix) ==
    IF ks = <<>> THEN <<>>
    ELSE <<"\n", "func", " ", "(src", " ", "*", Head(ks)>> \o suffix \o
         <<")", " ", "ConvertTo(dstRaw", " ", "conversion.Hub)", " ", "error", " ", "{", "\n",
           "\t", "dst", " ", ":=", " ", "dstRaw.(*", Group, ver, ".", Head(ks)>> \o suffix \o
         <<")", "\n", "}", "\n",
           "\n", "func", " ", "(dst", " ", "*", Head(ks)>> \o suffix \o
         <<")", " ", "ConvertFrom(srcRaw", " ", "conversion.Hub)", " ", "error", " ", "{", "\n",
           "\t", "src", " ", ":=", " ", "srcRaw.(*", Group, ver, ".", Head(ks)>> \o suffix \o
         <<")", "\n",
           "\t", "//", " ", "Preserve", " ", "Hub", " ", "data", " ", "on", " ",
           "down-conversion", "\n", "}", "\n">>
         \o SpokeFuncs(ver, Tail(ks), suffix)

\* what ConversionGen.mk_spoke appends, conversion_gen.py:197-294
SpokeText(self, ks) ==
    <<"\n", "package", " ", self.prev_ver, "\n", "\n", "import", " ", "(", "\n">> \o
    ImportLine(self.new_ver) \o <<"\n", ")", "\n">> \o
    SpokeFuncs(self.new_ver, ks, <<>>) \o SpokeFuncs(self.new_ver, ks, <<"List">>)

\* ConversionGen.mk_spoke, conversion_gen.py:170-297
mk_spoke(self, yaml, w) ==
    LET spoke_go == ConversionPath(self.prev_ver)
        fsys1 == IF ~self.dryrun THEN copy2(w.files, BoilerplatePath, spoke_go) ELSE w.files
    IN IF w.raised # "" THEN w
       ELSE IF ~isfile(fsys1, spoke_go) THEN Raise(w, "FileNotFoundError")
       ELSE [w EXCEPT !.files =
                Stored(self, spoke_go,
                       append(fsys1[spoke_go][1], SpokeText(self, kinds(yaml, self.prev_ver))),
                       fsys1)]

\* ConversionGen.mk_spoke_fuzz_test, conversion_gen.py:324-397: it writes
\* api/<prev>/conversion_test.go, which the previous hub does not have: in
\* dry-run the boilerplate is not copied and read() raises
mk_spoke_fuzz_test(self, w) ==
    IF w.raised # "" THEN w
    ELSE IF self.dryrun THEN Raise(w, "FileNotFoundError") ELSE Touch(w)

\* the scaffold markers of internal/controller/conversion_test.go
SuiteScaffold == <<"\t", "//", " ", "+", "crdbumper:scaffold:webhooksuitetest">>
SpokeTestScaffold(k) ==
    <<"\t", "\t", "//", " ", "+", "crdbumper:scaffold:spoketest=\"", Group, ".", k, "\"">>

\* the Context() of a Kind, conversion_gen.py:491-521, with its spoketest
\* scaffold or without
ContextOf(ver, k, scaffolded) ==
    <<"\n", "\t", "Context(\"", k, "\",", " ", "func", "()", " ", "{", "\n",
      "\t", "\t", "var", " ", "resHub", " ", "*", Group, ver, ".", k, "\n">> \o
    (IF scaffolded THEN SpokeTestScaffold(k) \o <<"\n">> ELSE <<>>) \o
    <<"\t", "})", "\n">>

\* the It() of a Kind for the spoke, conversion_gen.py:536-554
SpokeTest(ver, k) ==
    <<"\n", "\t", "\t", "It(\"reads", " ", k, " ", "resource", " ", "via", " ", "hub", " ",
      "and", " ", "via", " ", "spoke", " ", ver, "\",", "\n",
      "\t", "\t", "\t", "resSpoke", " ", ":=", " ", "&", Group, ver, ".", k, "{}", "\n",
      "\t", "\t", "})", "\n">>

\* the head of the file, conversion_gen.py:432-449
SuiteHead(vers) ==
    <<"\n", "package", " ", "controller", "\n", "\n", "import", " ", "(", "\n">> \o
    (IF Len(vers) > 0 THEN ImportLine(vers[1]) \o <<"\n">> ELSE <<>>) \o
    (IF Len(vers) > 1 THEN ImportLine(vers[2]) \o <<"\n">> ELSE <<>>) \o
    <<")", "\n", "\n", "var", " ", "_", " ", "=", " ", "Describe(", "\n">>

\* the file as mk_conversion_webhook_suite_test starts it,
\* conversion_gen.py:432-462
SuiteTemplate(self) ==
    SuiteHead(<<self.prev_ver, self.new_ver>>) \o SuiteScaffold \o <<"\n", "})", "\n">>

RECURSIVE ContextsOf(_, _, _)
ContextsOf(ver, ks, scaffolded) ==
    IF ks = <<>> THEN <<>>
    ELSE ContextOf(ver, Head(ks), scaffolded) \o ContextsOf(ver, Tail(ks), scaffolded)

\* the file of a repository whose hub is ver: written by an earlier bump,
\* or by hand without the spoketest scaffolds
SuiteFile(ver, ks, scaffolded) ==
    Boilerplate \o SuiteHead(<<ver>>) \o ContextsOf(ver, ks, scaffolded) \o
    SuiteScaffold \o <<"\n", "})", "\n">>

\* _add_import_for_new_hub, conversion_gen.py:146-168; raised is set when
\* re.search is handed None
add_import_for_new_hub(self, data) ==
    LET line == find_in_file(data, <<"\t", Group, self.prev_ver, " ">>)
    IN IF line = None THEN [raised |-> "TypeError: expected string", data |-> data]
       ELSE IF line[1] = ImportLine(self.prev_ver)
       THEN [raised |-> "",
             data |-> replace_in_file(data, line[1],
                          line[1] \o <<"\n">> \o ImportLine(self.new_ver))]
       ELSE [raised |-> "", data |-> data]

\* the loop bumping the existing Kinds, conversion_gen.py:467-477
RECURSIVE BumpKinds(_, _, _)
BumpKinds(self, ks, data) ==
    IF ks = <<>> THEN data
    ELSE BumpKinds(self, Tail(ks),
             replace_in_file(data, <<Group, self.prev_ver, ".">>,
                             <<Group, self.new_ver, ".">>))

\* the loop adding the new Kinds, conversion_gen.py:479-522
RECURSIVE AddContexts(_, _, _)
AddContexts(self, ks, r) ==
    IF ks = <<>> \/ r.raised # "" THEN r
    ELSE LET found == find_in_file(r.data, <<"Context(\"", Head(ks), "\",", " ", "func">>)
             scaffold_test == find_in_file(r.data, <<"+", "crdbumper:scaffold:webhooksuitetest">>)
         IN IF found # None THEN AddContexts(self, Tail(ks), r)
            ELSE IF scaffold_test = None
            THEN [r EXCEPT !.raised = "TypeError: replace() argument 1 must be str"]
            ELSE AddContexts(self, Tail(ks),
                     [r EXCEPT !.data =
                         replace_in_file(r.data, scaffold_test[1],
                             ContextOf(self.new_ver, Head(ks), TRUE) \o <<"\n">> \o
                             scaffold_test[1])])

\* the loop adding the tests for the new spoke: a Kind whose scaffold is
\* not found is passed over, conversion_gen.py:524-564
RECURSIVE AddSpokeTests(_, _, _)
AddSpokeTests(self, ks, data) ==
    IF ks = <<>> THEN data
    ELSE LET scaffold_spoketest ==
                 find_in_file(data, <<"crdbumper:scaffold:spoketest=\"", Group, ".",
                                      Head(ks), "\"">>)
         IN AddSpokeTests(self, Tail(ks),
                IF scaffold_spoketest = None THEN data
                ELSE replace_in_file(data, scaffold_spoketest[1],
                         SpokeTest(self.prev_ver, Head(ks)) \o <<"\n">> \o
                         scaffold_spoketest[1]))

\* ConversionGen.mk_conversion_webhook_suite_test, conversion_gen.py:399-566
mk_conversion_webhook_suite_test(self, yaml, w) ==
    LET conv_go == SuiteConversionPath
        ks == kinds(yaml, self.prev_ver)
        is_new == ~isfile(w.files, conv_go) /\ ~self.dryrun
        fsys1 == IF is_new THEN copy2(w.files, BoilerplatePath, conv_go) ELSE w.files
    IN IF w.raised # "" THEN w
       ELSE IF ~isfile(fsys1, conv_go) THEN Raise(w, "FileNotFoundError")
       ELSE LET data == fsys1[conv_go][1]
                r1 == IF is_new
                      THEN [raised |-> "", data |-> append(data, SuiteTemplate(self))]
                      ELSE LET r == add_import_for_new_hub(self, data)
                           IN [r EXCEPT !.data = BumpKinds(self, ks, r.data)]
                r2 == AddContexts(self, ks, r1)
            IN IF r2.raised # "" THEN Raise(w, r2.raised)
               ELSE [w EXCEPT !.files =
                        Stored(self, conv_go, AddSpokeTests(self, ks, r2.data), fsys1)]

(***************************************************************************)
(* The step functions on the working tree, crd-bumper.py:196-366: what     *)
(* each does before its commit, the first call innermost; an operation on  *)
(* a tree where an exception is raised leaves it as it is.  done is what   *)
(* the step returns when it returns before its commit.                     *)
(* returns before its commit.  config/crd/kustomization.yaml, the tests of *)
(* internal/controller and github/cluster-api/util/conversion are there    *)
(* with their scaffold markers, and are written by the steps that edit     *)
(* them.                                                                   *)
(***************************************************************************)
\* crd-bumper.py:196-214
tree_create_apis(self, yaml, w) ==
    IF ~tree_prev_is_hub(self, w.files) THEN [w EXCEPT !.done = FALSE]
    ELSE fix_kubebuilder_import_alias(self, CreateApis_create(self, yaml, w))

\* crd-bumper.py:219-238
tree_copy_api_content(self, yaml, w) ==
    fmt(self,
        OnFile("add_conversion_schemebuilder", self, GvInfoPath(self.prev_ver),
            ForKinds("set_storage_version", self, self.new_ver, kinds(yaml, self.prev_ver),
                ForKinds("remove_previous_storage_version", self, self.prev_ver,
                         kinds(yaml, self.prev_ver),
                    edit_new_api_files(self, yaml,
                        copy_content(self, yaml, w))))))

\* crd-bumper.py:243-260
tree_mv_webhooks(self, yaml, w) ==
    fmt(self,
        mv_project_webhooks(self, yaml,
            edit_manifests(self, yaml,
                edit_go_files(self, yaml, w))))

\* crd-bumper.py:265-284; enable_in_crd and add_fuzz_tests store
\* config/crd/kustomization.yaml and
\* github/cluster-api/util/conversion/conversion_test.go, webhooks.py:153-174,
\* 225-330
tree_conversion_webhooks(self, yaml, w) ==
    fmt(self,
        Touch(
            hub(self, yaml,
                fix_kubebuilder_import_alias(self,
                    ConversionWebhooks_create(self, yaml, w)))))

\* crd-bumper.py:289-301
tree_conversion_gen(self, yaml, w) ==
    fmt(self,
        mk_conversion_webhook_suite_test(self, yaml,
            mk_spoke_fuzz_test(self,
                mk_spoke(self, yaml,
                    mk_doc_go(self, w)))))

\* crd-bumper.py:306-319, 327-341: TypeError, see bump_controllers and
\* bump_apis
tree_bump(self, yaml, w) == Raise(w, "TypeError: missing argument final_msgs")

\* crd-bumper.py:351-364: the make targets write the generated files
tree_auto_gens(self, yaml, w) == [Touch(w) EXCEPT !.tools = @ \cup Runs(self, {"make"})]

CallTree(fn, self, yaml, w) ==
    CASE fn = "create_apis" -> tree_create_apis(self, yaml, w)
      [] fn = "copy_api_content" -> tree_copy_api_content(self, yaml, w)
      [] fn = "mv_webhooks" -> tree_mv_webhooks(self, yaml, w)
      [] fn = "conversion_webhooks" -> tree_conversion_webhooks(self, yaml, w)
      [] fn = "conversion_gen" -> tree_conversion_gen(self, yaml, w)
      [] fn = "bump_controllers" -> tree_bump(self, yaml, w)
      [] fn = "bump_apis" -> tree_bump(self, yaml, w)
      [] fn = "auto_gens" -> tree_auto_gens(self, yaml, w)

\* the step has written when the tree it leaves is not the tree it found
Wrote(w, fsys) == w.files # fsys \/ w.edited

\* the step called on the working tree: its edits, then its commit
\* (each step ends with commit_stage(stage, msg); return True)
TreeResult(g, e, stage, msg_in, h, d, fsys, w) ==
    [files |-> w.files,
     result |-> IF w.raised # ""
                THEN Result(TRUE, w.raised, h, d \/ Wrote(w, fsys), Wrote(w, fsys),
                            FALSE, FALSE, w.tools)
                ELSE IF ~w.done
                THEN Result(FALSE, "", h, d \/ Wrote(w, fsys), Wrote(w, fsys),
                            FALSE, FALSE, w.tools)
                ELSE Commit(g, e, stage, msg_in, h, d \/ Wrote(w, fsys), Wrote(w, fsys),
                            w.tools)]

StepOnTree(fn, g, e, stage, msg_in, h, d, fsys) ==
    TreeResult(g, e, stage, msg_in, h, d, fsys,
               CallTree(fn, Self(g.dryrun), fsys[ProjectPath][1], Work(fsys)))

\* the step has returned or raised: main() goes on, and the files are as
\* the step left them
FinishTree(s) ==
    /\ Finish(s.result)
    /\ files' = s.files

\* main(), crd-bumper.py:184-193, with the step working on the files
tree_step(fn) ==
    /\ pc = "action"
    /\ cmd_elem.fn = fn
    /\ FinishTree(StepOnTree(fn, gitcli, env, cmd_elem.name, env.msg_in, head, dirty, files))
    /\ UNCHANGED <<fu, fupc, nops, applied, last>>

(***************************************************************************)
(* The repositories the tool is run on                                     *)
(***************************************************************************)
\* PROJECT of the scenario: Workflow, with validating webhooks, and Storage
ScenarioYaml ==
    << Resource("Workflow", PrevVer, TRUE, <<"validation">>),
       Resource("Storage", PrevVer, TRUE, None) >>

\* PROJECT listing Workflow twice
DuplicateYaml ==
    << Resource("Workflow", PrevVer, TRUE, <<"validation">>),
       Resource("Workflow", PrevVer, TRUE, None) >>

\* PROJECT with a Kind that the new version has and the previous has not,
\* and an entry that has a controller only
ExtraNewYaml ==
    << Resource("Workflow", PrevVer, TRUE, <<"validation">>),
       Resource("Node", NewVer, TRUE, None),
       Resource("Storage", PrevVer, FALSE, None) >>

\* PROJECT whose only API is at the new version: what is left at the
\* previous version is a controller, as when the tool is run with a
\* --prev-ver that names no API of the repository
NothingAtPrevYaml ==
    << Resource("Workflow", NewVer, TRUE, None),
       Resource("Storage", PrevVer, FALSE, None) >>

Descriptors == {ScenarioYaml, DuplicateYaml, ExtraNewYaml, NothingAtPrevYaml}

\* the newest commit of the repositories: a human commit, and where the
\* new version is already there without the previous, the marker an
\* earlier bump left
RepoHeads(yaml) ==
    IF kinds(yaml, PrevVer) = <<>>
    THEN {HumanMessage,
          GitRecord(StageMessage(operation_order_init[3].name, <<"body">>))}
    ELSE {HumanMessage}

\* the storage-version marker of the types of the previous version: none,
\* or as one or another version of kubebuilder writes it
Markings == {<<>>, StorageVersion, StorageVersionSpaced}

\* the files of an API version with its Kinds
RECURSIVE KindFiles(_, _, _, _)
KindFiles(ver, ks, marked, yaml) ==
    IF ks = <<>> THEN <<>>
    ELSE << <<TypesPath(ver, Head(ks)), KindTypes(ver, Head(ks), marked)>> >> \o
         (IF has_webhooks(yaml, Head(ks), ver)
          THEN << <<WebhookPath(ver, Head(ks)), KindWebhook(ver, Head(ks))>> >>
          ELSE <<>>) \o
         KindFiles(ver, Tail(ks), marked, yaml)

\* the tree of a repository whose PROJECT is yaml: the previous version is
\* the hub by a conversion.go (hubbed) or by being the only version, its
\* types carry the storage-version marker or not (marked), there is a
\* zz_generated.defaults.go or not (defaults), and
\* internal/controller/conversion_test.go is suite (None: not there)
Tree(yaml, hubbed, marked, defaults, suite) ==
    LET present ==
            << <<ProjectPath, yaml>>,
               <<MainPath, MainGo(PrevVer, kinds(yaml, PrevVer))>>,
               <<ManifestsPath, ManifestEntries(PrevVer, kinds(yaml, PrevVer))>>,
               <<BoilerplatePath, Boilerplate>>,
               <<GvInfoPath(PrevVer), GvInfo(PrevVer)>>,
               <<DeepcopyPath(PrevVer), Generated(PrevVer)>> >> \o
            KindFiles(PrevVer, kinds(yaml, PrevVer), marked, yaml) \o
            (IF kinds(yaml, NewVer) # <<>>
             THEN << <<GvInfoPath(NewVer), GvInfo(NewVer)>>,
                     <<DeepcopyPath(NewVer), Generated(NewVer)>> >> \o
                  KindFiles(NewVer, kinds(yaml, NewVer), <<>>, yaml)
             ELSE <<>>) \o
            (IF hubbed
             THEN << <<ConversionPath(PrevVer),
                       Boilerplate \o HubText(PrevVer, kinds(yaml, PrevVer))>> >>
             ELSE <<>>) \o
            (IF defaults THEN << <<DefaultsPath(PrevVer), Generated(PrevVer)>> >> ELSE <<>>) \o
            (IF suite # None THEN << <<SuiteConversionPath, suite[1]>> >> ELSE <<>>)
    IN [p \in RepoPaths \cup {NewPath(q) : q \in RepoPaths} |->
           IF \E i \in DOMAIN present : present[i][1] = p
           THEN Some(present[CHOOSE i \in DOMAIN present : present[i][1] = p][2])
           ELSE None]

\* internal/controller/conversion_test.go of the repositories
Suites(yaml) ==
    { None,
      Some(SuiteFile(PrevVer, kinds(yaml, PrevVer), TRUE)),
      Some(SuiteFile(PrevVer, kinds(yaml, PrevVer), FALSE)) }

InitRepo ==
    /\ dirty = FALSE
    /\ branches = {"main"}
    /\ env = [api_versions |-> 1, conversion_go |-> None, tool_fails |-> {},
              preferred_alias |-> FALSE, msg_in |-> PlainBody]
    /\ pc = "idle"
    /\ args = NoArgs
    /\ gitcli = [dryrun |-> FALSE, nocommit |-> FALSE]
    /\ operation_order = operation_order_init
    /\ cmd_elem = NoneElem
    /\ exitCode = 0
    /\ exc = ""
    /\ invoked = <<>>
    /\ edited = FALSE
    /\ commits = <<>>
    /\ lastCommit = None
    /\ done = "unset"
    /\ phase = "tree"
    /\ \E yaml \in Descriptors, hubbed \in BOOLEAN, marked \in Markings,
          defaults \in BOOLEAN :
          \E suite \in Suites(yaml) :
             /\ files = Tree(yaml, hubbed, marked, defaults, suite)
             /\ start = Some([files |-> files])
             /\ head \in RepoHeads(yaml)
    /\ ref = None
    /\ runs = 0
    /\ executed = <<>>
    /\ tools = {}
    /\ fu = None
    /\ fupc = "none"
    /\ nops = 0
    /\ applied = [rule |-> "", dryrun |-> FALSE, after |-> <<>>]
    /\ last = NoOperation

\* the tool is run, `all` or `step`, in a new branch the first time and
\* with --this-branch afterwards
RepoStart ==
    /\ runs < MaxRuns
    /\ runs' = runs + 1
    /\ \E cmd \in {"all", "step"} : main_start(EqArgs(cmd, runs > 0, None))
    /\ UNCHANGED <<phase, start, ref, executed, fuvars>>

NextRepo ==
    \/ RepoStart
    \/ main_find
    \/ main_loop
    \/ \E fn \in StepFns : tree_step(fn)

SpecRepo == InitRepo /\ [][NextRepo]_vars

(***************************************************************************)
(* Properties of the steps on the working tree                             *)
(***************************************************************************)
\* the PROJECT of the working tree
OnDisk == files[ProjectPath][1]

Sorted(ks) == \A i \in 1..(Len(ks) - 1) : Rank(ks[i]) <= Rank(ks[i + 1])
NoDuplicates(ks) == \A i, j \in DOMAIN ks : i # j => ks[i] # ks[j]

\* C23: for the PROJECT of every repository, at each version, Project.kinds
\* gives the names of the Kinds that have an API at that version, in
\* ascending order and none of them twice.
C23_KindsSortedDeduplicated ==
    phase = "tree" =>
        \A ver \in Versions :
            LET ks == kinds(OnDisk, ver)
            IN /\ {ks[i] : i \in DOMAIN ks} =
                      {OnDisk[i].kind : i \in {j \in DOMAIN OnDisk :
                                                 OnDisk[j].api /\ OnDisk[j].version = ver}}
               /\ Sorted(ks)
               /\ NoDuplicates(ks)

\* the process is about to call the step function fn
AtStep(fn) == pc = "action" /\ cmd_elem.fn = fn

KindSet(yaml, ver) == {kinds(yaml, ver)[i] : i \in DOMAIN kinds(yaml, ver)}

\* the Kinds of the previous version are not those of the new version
KindsMismatch == KindSet(OnDisk, PrevVer) # KindSet(OnDisk, NewVer)

MvWebhooksName == <<"mv", "-", "webhooks">>

\* C24: when mv-webhooks is called on a PROJECT whose Kinds at the previous
\* version are not its Kinds at the new version, PROJECT is left as it was
\* (no webhooks block moved, nothing saved, no PROJECT.new), the process
\* ends with status 1 and no commit is made.
C24_MismatchRejects ==
    [][ (AtStep("mv_webhooks") /\ KindsMismatch) =>
            /\ files'[ProjectPath] = files[ProjectPath]
            /\ files'[NewPath(ProjectPath)] = files[NewPath(ProjectPath)]
            /\ pc' = "exited"
            /\ exitCode' = 1
            /\ head' = head
            /\ commits' = commits ]_vars

\* mv-webhooks has been refused on a PROJECT whose Kinds differ and whose
\* previous version has a webhooks block to move
C24_Witness ==
    /\ phase = "tree"
    /\ pc = "exited"
    /\ exc = "SystemExit: 1"
    /\ executed # <<>>
    /\ Last(executed) = MvWebhooksName
    /\ KindsMismatch
    /\ \E i \in DOMAIN OnDisk :
          /\ OnDisk[i].version = PrevVer
          /\ OnDisk[i].webhooks # None
          /\ find_idx(OnDisk, OnDisk[i].kind, NewVer) # 0

\* C25: when mv-webhooks is refused because the Kinds of the two versions
\* differ, nothing has been written: every file of the working tree is as
\* it was when the step was called.
C25_MismatchWritesNothing ==
    [][ (AtStep("mv_webhooks") /\ KindsMismatch) =>
            /\ files' = files
            /\ dirty' = dirty ]_vars

\* the files of the API trees whose name begins with "zz_"
Generateds == {p \in RepoPaths : Len(p) > 3 /\ p[4] = "zz_"}

\* C26: no rewrite rule of a step modifies a file whose name begins with
\* "zz_": after a step that applies rewrite rules (every step but
\* create-apis, which scaffolds) such a file is as it was before the step,
\* or is the copy of the previous version's file that the step has made.
C26_GeneratedNeverRewritten ==
    [][ (phase = "tree" /\ pc = "action" /\ cmd_elem.fn # "create_apis") =>
            \A p \in Generateds :
                files'[p] \in {files[p], files[ApiDir(PrevVer) \o fname(p)]} ]_vars

\* internal/controller/conversion_test.go is there with the Context() of
\* Kind k, and the spoketest scaffold of k is not in it: the place where
\* mk_conversion_webhook_suite_test inserts the test of the new spoke
SpokeAnchorMissing(k) ==
    /\ isfile(files, SuiteConversionPath)
    /\ find_in_file(files[SuiteConversionPath][1],
                    <<"Context(\"", k, "\",", " ", "func">>) # None
    /\ find_in_file(files[SuiteConversionPath][1],
                    <<"crdbumper:scaffold:spoketest=\"", Group, ".", k, "\"">>) = None

\* C28: when conversion-gen is called and the anchor of a rewrite rule is
\* not in its file (here the spoketest scaffold of a Kind), the step ends
\* with an error: the process exits with status 1 and nothing is committed.
C28_MissingAnchorAborts ==
    [][ (phase = "tree" /\ AtStep("conversion_gen") /\
         \E k \in KindSet(OnDisk, PrevVer) : SpokeAnchorMissing(k)) =>
            /\ pc' = "exited"
            /\ exitCode' = 1
            /\ head' = head
            /\ commits' = commits ]_vars

\* the API versions whose conversion.go classifies as Hub
Hubs(fsys) == {ver \in Versions : is_hub(fsys[ConversionPath(ver)])}

\* C21: from a repository that starts with exactly one hub, whenever the
\* newest commit is a step's and the working tree is clean, exactly one
\* API version classifies as Hub.
C21_OneHubWhenCommitted ==
    (/\ phase = "tree"
     /\ Cardinality(Hubs(start[1].files)) = 1
     /\ commits # <<>>
     /\ ~dirty)
    => Cardinality(Hubs(files)) = 1

AutoGensName == <<"auto", "-", "gens">>

\* the conversion.go of ver has the no-op Hub() of Kind k
HubMarkerOf(fsys, ver, k) ==
    /\ isfile(fsys, ConversionPath(ver))
    /\ Contains(fsys[ConversionPath(ver)][1],
                <<"func", " ", "(*", k, ")", " ", "Hub()", " ", "{}", "\n">>)

\* the conversion.go of ver has the ConvertTo and ConvertFrom of Kind k,
\* to and from the Kind of version hubver
ConvertsOf(fsys, ver, hubver, k) ==
    /\ isfile(fsys, ConversionPath(ver))
    /\ Contains(fsys[ConversionPath(ver)][1],
                <<"func", " ", "(src", " ", "*", k, ")", " ", "ConvertTo(dstRaw", " ",
                  "conversion.Hub)", " ", "error", " ", "{", "\n",
                  "\t", "dst", " ", ":=", " ", "dstRaw.(*", Group, hubver, ".", k, ")">>)
    /\ Contains(fsys[ConversionPath(ver)][1],
                <<"func", " ", "(dst", " ", "*", k, ")", " ", "ConvertFrom(srcRaw", " ",
                  "conversion.Hub)", " ", "error", " ", "{", "\n",
                  "\t", "src", " ", ":=", " ", "srcRaw.(*", Group, hubver, ".", k, ")">>)

\* what the scenario asks of the files
ScenarioFiles(fsys) ==
    /\ \A k \in {"Workflow", "Storage"} :
          /\ isfile(fsys, TypesPath(NewVer, k))
          /\ HubMarkerOf(fsys, NewVer, k)
          /\ ConvertsOf(fsys, PrevVer, NewVer, k)
    /\ is_hub(fsys[ConversionPath(NewVer)])
    /\ is_spoke(fsys[ConversionPath(PrevVer)])
    /\ ~is_hub(fsys[ConversionPath(PrevVer)])

\* the `all` run on the repository of the scenario has ended
ScenarioRunEnded ==
    /\ phase = "tree"
    /\ start[1].files[ProjectPath][1] = ScenarioYaml
    /\ runs = 1
    /\ args.cmd = "all"
    /\ pc = "exited"

\* C22: the migration of the repository with Workflow and Storage at
\* v1alpha1 to v1alpha2, run with `all`, ends with the whole pipeline
\* committed, the Hub() of both Kinds in api/v1alpha2/conversion.go, and
\* their ConvertTo and ConvertFrom, to and from v1alpha2, in
\* api/v1alpha1/conversion.go, which is a spoke and no hub.
C22_ScenarioConverted ==
    ScenarioRunEnded =>
        /\ commits # <<>>
        /\ Last(commits) = AutoGensName
        /\ ScenarioFiles(files)

(***************************************************************************)
(* Further properties of FileUtil                                          *)
(***************************************************************************)
\* C31: append(text) of a FileUtil whose file does not exist and whose
\* buffer was never set does not raise: the buffer is created and holds the
\* text.
C31_AppendCreatesBuffer ==
    [][ (fupc = "ops" /\ fu[1].input_data = None /\ files[FPath] = None /\ FUAppend)
          => /\ fupc' = "ops"
             /\ fu'[1].input_data \in {Some(a) : a \in AppendArgs} ]_vars

\* C39: delete_from_file(line) on a buffer that has no line equal to the
\* string returns False and leaves the buffer as it was, trailing newline
\* included.
C39_DeleteNothingChangesNothing ==
    (last.op = "delete_from_file"
       /\ \A i \in DOMAIN SplitLines(last.before) : SplitLines(last.before)[i] # last.arg)
      => /\ ~last.ret
         /\ last.after = last.before

(***************************************************************************)
(* The specification of Project, pkg/project.py: PROJECT is loaded, the    *)
(* webhooks of Kinds are moved between the versions, and it is stored.     *)
(* fu holds the Project, files the PROJECT file and PROJECT.new.           *)
(***************************************************************************)
\* Project.__init__, project.py:25-41
Project(dryrun, fsys) == [dryrun |-> dryrun, yaml |-> fsys[ProjectPath][1]]

\* the 'webhooks' blocks of a record: none, or the webhooks kubebuilder
\* has scaffolded
WebhookBlocks(ver) ==
    IF ver = PrevVer
    THEN {None, <<"validation">>, <<"defaulting", "validation">>}
    ELSE {None, <<"conversion">>}

\* PROJECT with Workflow and Storage at both versions, in the order
\* kubebuilder appends them, with or without a controller-only Node first
Registries ==
    UNION { { << Resource("Workflow", PrevVer, TRUE, a),
                 Resource("Storage", PrevVer, TRUE, b),
                 Resource("Workflow", NewVer, TRUE, c),
                 Resource("Storage", NewVer, TRUE, d) >>,
              << Resource("Node", PrevVer, FALSE, None),
                 Resource("Workflow", PrevVer, TRUE, a),
                 Resource("Storage", PrevVer, TRUE, b),
                 Resource("Workflow", NewVer, TRUE, c),
                 Resource("Storage", NewVer, TRUE, d) >> } :
            a \in WebhookBlocks(PrevVer), b \in WebhookBlocks(PrevVer),
            c \in WebhookBlocks(NewVer), d \in WebhookBlocks(NewVer) }

InitProject ==
    /\ NoProcess
    /\ \E yaml \in Registries :
          files = (ProjectPath :> Some(yaml)) @@ (NewPath(ProjectPath) :> None)
    /\ fu = None
    /\ fupc = "start"
    /\ nops = 0
    /\ applied = [rule |-> "", dryrun |-> FALSE, after |-> <<>>]
    /\ last = NoOperation

ProjectNew ==
    /\ fupc = "start"
    /\ \E d \in BOOLEAN : fu' = Some(Project(d, files))
    /\ fupc' = "ops"
    /\ UNCHANGED <<mainvars, files, nops, applied, last>>

\* the yaml of the Project is set to after by the call of mv_webhooks
ProjectMoved(arg, after) ==
    /\ fu' = Some([dryrun |-> fu[1].dryrun, yaml |-> after])
    /\ last' = [op |-> "mv_webhooks", arg |-> arg, before |-> fu[1].yaml,
                after |-> after, ret |-> FALSE]

\* project.mv_webhooks(k, from_ver, to_ver), webhooks.py:81-82
ProjectMv ==
    /\ fupc = "ops"
    /\ nops < MaxOps
    /\ \E k \in {"Workflow", "Storage"}, from_ver \in Versions, to_ver \in Versions :
          /\ from_ver # to_ver
          /\ ProjectMoved(<<k, from_ver, to_ver>>,
                          Project_mv_webhooks(fu[1].yaml, k, from_ver, to_ver))
    /\ nops' = nops + 1
    /\ UNCHANGED <<mainvars, files, fupc, applied>>

\* project.store(), webhooks.py:83
ProjectStore ==
    /\ fupc = "ops"
    /\ files' = Project_store(Self(fu[1].dryrun), fu[1].yaml, files)
    /\ fupc' = "stored"
    /\ UNCHANGED <<mainvars, fu, nops, applied, last>>

NextProject == ProjectNew \/ ProjectMv \/ ProjectStore

SpecProject == InitProject /\ [][NextProject]_vars

\* the records of kind k at version ver
RecordsOf(yaml, k, ver) == {i \in DOMAIN yaml : yaml[i].kind = k /\ yaml[i].version = ver}

\* record r but for its 'webhooks' block, which is block
WithBlock(r, block) ==
    [kind |-> r.kind, version |-> r.version, api |-> r.api, webhooks |-> block]

\* C38: mv_webhooks(kind, from, to) moves the 'webhooks' block: afterwards
\* the record of the Kind at from has none and the record at to has the
\* block the record at from had, as it was; when the record at from had no
\* block both records are as before; and every other record is as before.
C38_MvWebhooksRelocates ==
    last.op = "mv_webhooks" =>
        LET k == last.arg[1]
            from_ver == last.arg[2]
            to_ver == last.arg[3]
        IN /\ Len(last.after) = Len(last.before)
           /\ \A i \in DOMAIN last.before :
                 i \notin RecordsOf(last.before, k, from_ver)
                          \cup RecordsOf(last.before, k, to_ver)
                    => last.after[i] = last.before[i]
           /\ \A i \in RecordsOf(last.before, k, from_ver),
                 j \in RecordsOf(last.before, k, to_ver) :
                 IF last.before[i].webhooks # None
                 THEN /\ last.after[i] = WithBlock(last.before[i], None)
                      /\ last.after[j] = WithBlock(last.before[j], last.before[i].webhooks)
                 ELSE /\ last.after[i] = last.before[i]
                      /\ last.after[j] = last.before[j]

C38_Witness ==
    /\ last.op = "mv_webhooks"
    /\ last.arg = <<"Workflow", PrevVer, NewVer>>
    /\ Len(last.before) = 5
    /\ last.before[2].webhooks = <<"defaulting", "validation">>
    /\ last.before[4].webhooks = <<"conversion">>
    /\ last.after[2].webhooks = None
    /\ last.after[4].webhooks = <<"defaulting", "validation">>
    /\ last.after[3] = last.before[3]

(***************************************************************************)
(* Further properties of the steps on the working tree                     *)
(***************************************************************************)
CopyApiContentName == <<"copy", "-", "api", "-", "content">>

\* the file at path has the storage-version marker, in either form
HasStorageMarker(fsys, path) == Contains(fsys[path][1], <<"+kubebuilder:storageversion">>)

\* C37: once copy-api-content is committed, for every Kind with a
\* <kind>_types.go at both versions the storage-version marker is in the file
\* of the new version and not in the file of the previous version, whether
\* the previous version had it as '//+kubebuilder:storageversion' or as
\* '// +kubebuilder:storageversion'.
C37_OneStorageVersion ==
    (phase = "tree" /\ \E i \in DOMAIN commits : commits[i] = CopyApiContentName) =>
        \A k \in Kinds :
            (isfile(files, TypesPath(PrevVer, k)) /\ isfile(files, TypesPath(NewVer, k))) =>
                /\ HasStorageMarker(files, TypesPath(NewVer, k))
                /\ ~HasStorageMarker(files, TypesPath(PrevVer, k))

C37_Witness ==
    /\ phase = "tree"
    /\ commits # <<>>
    /\ Last(commits) = CopyApiContentName
    /\ SplitLines(start[1].files[TypesPath(PrevVer, "Workflow")][1])[4] = StorageVersionSpaced
    /\ HasStorageMarker(files, TypesPath(NewVer, "Workflow"))
    /\ ~HasStorageMarker(files, TypesPath(PrevVer, "Workflow"))
    /\ HasStorageMarker(files, TypesPath(NewVer, "Storage"))

(***************************************************************************)
(* Further properties of the steps: a version without Kinds                *)
(***************************************************************************)
\* the steps that read the Kinds of the previous version to do their work,
\* create_apis.py:55, 85, webhooks.py:52, 64, 73, 108, conversion_gen.py,
\* controllers.py:70
PrevKindSteps ==
    {"create_apis", "copy_api_content", "mv_webhooks", "conversion_webhooks",
     "conversion_gen", "bump_controllers"}

C33_DryRunSingleStep ==
    [][ (/\ phase = "free"
         /\ pc \in {"find", "loop", "action"}
         /\ (args.dryrun \/ args.nocommit))
          => /\ commits' = commits
             /\ get_previous(head') = get_previous(head)
             /\ find_next_cmd(head', operation_order') = find_next_cmd(head, operation_order)
             /\ Len(invoked') <= 1 ]_vars

\* a process given `all` with both --dry-run and --no-commit has called one
\* step, which returned True, and has ended
C33_Witness ==
    /\ phase = "free"
    /\ pc = "exited"
    /\ args.dryrun /\ args.nocommit
    /\ Len(invoked) = 1
    /\ done = "True"
    /\ exitCode = 0
    /\ commits = <<>>

\* C34: whatever the newest commit is, the step find_next_cmd selects from
\* a step list is one expect_previous accepts for that list, and no process
\* ends on the ValueError of expect_previous
C34_SelectionPassesGuard ==
    phase = "free" =>
        /\ LET e == find_next_cmd(head, operation_order)
               op_cmd_list == [i \in DOMAIN operation_order |-> operation_order[i].name]
           IN (HasLen(e) /\ len(e) > 0)
                => ~expect_previous_raises(e.name, op_cmd_list, head)
        /\ exc # "ValueError: wants to build on"

\* the last step has been selected from a list with a step left out, on the
\* marker of the one before it, and prologue has let it through
C34_Witness ==
    /\ phase = "free"
    /\ pc = "action"
    /\ args.omit_step # None
    /\ get_previous(head) = Some(<<"bump", "-", "apis">>)
    /\ cmd_elem = find_next_cmd(head, operation_order)
    /\ cmd_elem.name = <<"auto", "-", "gens">>

\* the place of the step a commit records in the list of crd-bumper.py:113-122,
\* 0 for a commit that records none
Place(h) ==
    IF get_previous(h) # None /\ InOrder(operation_order_init, get_previous(h)[1])
    THEN IndexOfStep(operation_order_init, get_previous(h)[1])
    ELSE 0

Recorded ==
    { [i \in 1..n |-> operation_order_init[i].name] : n \in 1..5 }

\* repositories whose tools succeed
HistoryEnvs == {e \in EnvSets : e.tool_fails = {} /\ e.msg_in = PlainBody}

\* the branch of the bump with the steps of `commits` committed on it; the
\* newest commit is the one of the last of them, or a human commit made
\* after it
InitHistory ==
    /\ commits \in Recorded
    /\ head \in {GitRecord(StageMessage(commits[Len(commits)], PlainBody)), HumanMessage}
    /\ dirty = FALSE
    /\ branches = {"main", "api-v2"}
    /\ env \in HistoryEnvs
    /\ pc = "idle"
    /\ args = NoArgs
    /\ gitcli = [dryrun |-> FALSE, nocommit |-> FALSE]
    /\ operation_order = operation_order_init
    /\ cmd_elem = NoneElem
    /\ exitCode = 0
    /\ exc = ""
    /\ invoked = <<>>
    /\ edited = FALSE
    /\ lastCommit = None
    /\ done = "unset"
    /\ phase = "history"
    /\ start = None
    /\ ref = None
    /\ runs = 0
    /\ executed = <<>>
    /\ tools = {}
    /\ NoFileUtil

\* the tool is run to go on: `all` or `step`, on this branch (with or
\* without USE_EXISTING_WORKAREA) or asking for the branch again
HistoryStart ==
    /\ runs < MaxRuns
    /\ runs' = runs + 1
    /\ \E cmd \in {"all", "step"}, this_branch, use_existing \in BOOLEAN :
          /\ use_existing => this_branch
          /\ main_start([EqArgs(cmd, this_branch, None) EXCEPT
                            !.use_existing = use_existing])
    /\ UNCHANGED <<phase, start, ref, executed, fuvars>>

\* a human commits on the branch while no process runs
HumanCommit ==
    /\ pc \in {"idle", "exited"}
    /\ head # HumanMessage
    /\ head' = HumanMessage
    /\ dirty' = FALSE
    /\ UNCHANGED <<branches, env, pc, args, gitcli, operation_order, cmd_elem,
                   exitCode, exc, invoked, edited, commits, lastCommit, done, phase,
                   start, ref, runs, executed, tools, fuvars>>

NextHistory ==
    \/ HistoryStart
    \/ HumanCommit
    \/ main_find
    \/ main_loop
    \/ \E fn \in StepFns : main_step(fn)

SpecHistory == InitHistory /\ [][NextHistory]_vars

\* C36: when the newest commit records no step and a step S has been
\* committed on the branch, the selection of a process started there is the
\* step after S, and the process goes on to it
C36_ResumesAfterHumanCommit ==
    [][ (/\ phase = "history"
         /\ pc = "find"
         /\ commits # <<>>
         /\ get_previous(head) = None)
          => /\ pc' = "loop"
             /\ cmd_elem' # operation_order[1]
             /\ LET i == IndexOfStep(operation_order, commits[Len(commits)])
                IN cmd_elem' = operation_order[i + 1] ]_vars

====
